---- MODULE Spec2Model ----
(***************************************************************************)
(* The ETL pipeline of backend/app/etl/etl.py (run_etl and                 *)
(* ensure_product_exists) running as one or more workers against a shared  *)
(* PostgreSQL store (READ COMMITTED), together with the bulk upload of     *)
(* backend/app/routers/sales.py.                                           *)
(* With it, the three analytical services of backend/app/services          *)
(* (estimate_elasticity, run_forecast, recommend_prices) as the routers of  *)
(* backend/app/routers/ml.py call them, one call at a time.                 *)
(*                                                                         *)
(* The store is modelled by its committed tables plus, per worker, the     *)
(* uncommitted writes and the row locks of the worker's open transaction.  *)
(* A statement that would wait for a lock is an action that is not         *)
(* enabled while the lock is held by another transaction.                  *)
(*                                                                         *)
(* Specifications:                                                         *)
(*   Spec         two workers, uploads, terminations, any interleaving      *)
(*   SpecSingle   one invocation of run_etl over records uploaded before    *)
(*   SpecRecover  one worker that is terminated in a batch and invoked again*)
(*   SpecRow      one invocation over one record with any payload           *)
(*   SpecOverlap  two workers over four records, with store deadlocks       *)
(*   SpecAnalytics  analytical calls one after the other over loaded facts  *)
(*   SpecPrice    one call of recommend_prices, any arguments, any store    *)
(*   SpecEstimate one call of estimate_elasticity, any thresholds          *)
(*   SpecForecast one call of run_forecast, any split of the feature rows  *)
(*   SpecOptimize one call of optimize_price_objective over a demand curve *)
(*   SpecEndpoint one POST /run_etl over records uploaded before           *)
(*                                                                         *)
(* Abstractions: prices and revenues are integers instead of decimals;     *)
(* calendar dates are small naturals (Today is the current UTC date);      *)
(* UUIDs are small naturals; the surrogate id and created_at columns of    *)
(* sales_daily are left out; uploaded_at of raw_sales is a logical clock.  *)
(* The regression and the gradient-boosted model are not computed: the     *)
(* fitted elasticity and the predictions are any values of small sets.     *)
(* The demand curve is computed over a grid of NumPoints prices, in exact  *)
(* fractions instead of floats.                                            *)
(***************************************************************************)
EXTENDS Integers, Sequences, FiniteSets, TLC

VARIABLES
    rawSales,       \* raw_sales: sequence of rows, raw_id = index
    salesDaily,     \* sales_daily: set of committed fact rows
    products,       \* products: set of committed product rows
    organizations,  \* organizations: set of committed organization ids
    pc,             \* per worker: position inside run_etl
    raw_rows,       \* per worker: the claimed batch (raw ids, in claim order)
    idx,            \* per worker: index in raw_rows of the record being processed
    org,            \* per worker: local `org` of ensure_product_exists
    txRaw,          \* per worker: uncommitted UPDATEs of raw_sales (raw id -> row)
    txFacts,        \* per worker: uncommitted writes of sales_daily (dead, new)
    txProducts,     \* per worker: uncommitted product inserts
    txOrgs,         \* per worker: uncommitted organization inserts
    rowLocks,       \* per worker: raw ids locked FOR UPDATE
    factLocks,      \* per worker: (product, date) keys locked by an upsert
    raised,         \* per worker: the exception that escaped run_etl
    lastLoaded,     \* history: per key, the fact values of the record loaded last
    kills,          \* history: number of worker processes terminated so far
    modelRuns,             \* model_runs: set of committed rows
    elasticityEstimates,   \* elasticity_estimates: set of committed rows
    forecasts,             \* forecasts: set of committed rows
    priceRecommendations,  \* price_recommendations: set of committed rows
    costs,                 \* costs: set of committed rows
    request,        \* the analytical call in progress: its arguments
    step,           \* the analytical call in progress: its position
    session,        \* its session: the rows added and not committed
    locals,         \* the local variables of the service function
    response,       \* what the call returned or raised
    calls           \* history: number of analytical calls made so far

mlVars == <<modelRuns, elasticityEstimates, forecasts, priceRecommendations,
            costs, request, step, session, locals, response, calls>>

vars == <<rawSales, salesDaily, products, organizations, pc, raw_rows, idx, org,
          txRaw, txFacts, txProducts, txOrgs, rowLocks, factLocks, raised,
          lastLoaded, kills, mlVars>>

-----------------------------------------------------------------------------
(* Bounds *)

Workers == {"w1", "w2"}

\* total number of staging records ever uploaded
MaxRecords == 2

\* run_etl's batch_size argument (500 by default)
BatchSize == 2

\* product ids (UUIDs) are 1..NumProducts
NumProducts == 2

\* how many times a worker process is terminated inside a batch
MaxKills == 1

\* explicit ISO dates are 1..NumDates
NumDates == 1

\* the current UTC date, datetime.now(timezone.utc).date()
Today == 0

ProductIds == 1..NumProducts
Dates == 0..NumDates
Keys == ProductIds \X Dates

NULL == "NULL"

-----------------------------------------------------------------------------
(* JSON values of a raw payload, tagged by kind *)

Absent == [k |-> "absent", n |-> 0]   \* the key is not in the payload
Null   == [k |-> "null",   n |-> 0]   \* JSON null
Empty  == [k |-> "empty",  n |-> 0]   \* the empty string
Text   == [k |-> "text",   n |-> 0]   \* a string that parses as nothing
Num(n)  == [k |-> "num",  n |-> n]    \* a JSON number
Iso(n)  == [k |-> "iso",  n |-> n]    \* an ISO date string
Uuid(n) == [k |-> "uuid", n |-> n]    \* a UUID string

\* `key in data`
Has(data, key) == data[key].k # "absent"

\* Python truthiness of a JSON value
Truthy(v) ==
    /\ v.k \notin {"absent", "null", "empty"}
    /\ ~(v.k = "num" /\ v.n = 0)

Payload(pid, pidAlt, dt, us, qty, pr, upr, rev) ==
    [product_id |-> pid, productID |-> pidAlt, date |-> dt, units_sold |-> us,
     quantity |-> qty, price |-> pr, unit_price |-> upr, revenue |-> rev]

-----------------------------------------------------------------------------
(* Record Normalizer: the transform step of run_etl and the SalesRow schema *)

\* data["product_id"] if "product_id" in data else data.get("productID")
ResolveProductId(data) ==
    IF Has(data, "product_id") THEN data.product_id
    ELSE IF Has(data, "productID") THEN data.productID ELSE Null

\* variant: resolution by truthiness, data.get("units_sold") or data.get("quantity", 0)
ResolveUnitsTruthy(data) ==
    IF Truthy(data.units_sold) THEN data.units_sold
    ELSE IF Has(data, "quantity") THEN data.quantity ELSE Num(0)

\* data["units_sold"] if "units_sold" in data else data.get("quantity", 0)
ResolveUnits(data) ==
    IF Has(data, "units_sold") THEN data.units_sold
    ELSE IF Has(data, "quantity") THEN data.quantity ELSE Num(0)

\* data["price"] if "price" in data else data.get("unit_price", "0")
ResolvePrice(data) ==
    IF Has(data, "price") THEN data.price
    ELSE IF Has(data, "unit_price") THEN data.unit_price ELSE Num(0)

\* "date" in data and data["date"]
DateGiven(data) == Has(data, "date") /\ Truthy(data.date)

\* "revenue" in data and data["revenue"]
RevenueGiven(data) == Has(data, "revenue") /\ Truthy(data.revenue)

\* Decimal(str(v)) succeeds exactly on numbers
DecimalOk(v) == v.k = "num"

\* variant: the exception's text is not kept
FailureNoDetail(e) ==
    [ok |-> FALSE, err |-> NULL, product_id |-> 0, date |-> 0, units_sold |-> 0,
     price |-> 0, revenue |-> 0]

Failure(e) ==
    [ok |-> FALSE, err |-> e, product_id |-> 0, date |-> 0, units_sold |-> 0,
     price |-> 0, revenue |-> 0]

\* variant: the schema without the non_negative_units and non_negative_price
\* validators
SalesRowNoValidators(pid, us, pr) ==
    /\ pid.k = "uuid"
    /\ us.k = "num"

\* SalesRow(**normalized): type coercion, then the two field validators
SalesRowValid(pid, us, pr) ==
    /\ pid.k = "uuid"
    /\ us.k = "num" /\ us.n >= 0
    /\ pr.n >= 0

\* variant: calculate_revenue never called, a missing revenue stays 0
RevenueNotCalculated(given, rev, units, price) ==
    IF given THEN rev ELSE 0

\* SalesRow.calculate_revenue: revenue = units_sold * price when it is None
CalculateRevenue(given, rev, units, price) ==
    IF given THEN rev ELSE units * price

\* The normalized dict is built field by field, so the first conversion that
\* raises decides the exception; the schema is validated last.
Normalize(data) ==
    LET pid == ResolveProductId(data)
        us  == ResolveUnits(data)
        pr  == ResolvePrice(data)
    IN  IF DateGiven(data) /\ data.date.k = "num" THEN Failure("TypeError")
        ELSE IF DateGiven(data) /\ data.date.k # "iso" THEN Failure("ValueError")
        ELSE IF ~DecimalOk(pr) THEN Failure("InvalidOperation")
        ELSE IF RevenueGiven(data) /\ ~DecimalOk(data.revenue)
             THEN Failure("InvalidOperation")
        ELSE IF ~SalesRowValid(pid, us, pr) THEN Failure("ValidationError")
        ELSE [ok |-> TRUE, err |-> NULL,
              product_id |-> pid.n,
              date |-> IF DateGiven(data) THEN data.date.n ELSE Today,
              units_sold |-> us.n,
              price |-> pr.n,
              revenue |-> CalculateRevenue(RevenueGiven(data), data.revenue.n,
                                           us.n, pr.n)]

\* the values the upsert statement carries for a normalized row
FactOf(row) ==
    [product_id |-> row.product_id, date |-> row.date,
     units_sold |-> row.units_sold, price |-> row.price, revenue |-> row.revenue]

-----------------------------------------------------------------------------
(* The store as one transaction sees it *)

Range(seq) == {seq[i] : i \in DOMAIN seq}

RawIds == DOMAIN rawSales

NoTx == [dead |-> {}, new |-> {}]

\* sales_daily under READ COMMITTED: committed rows, minus the versions this
\* transaction replaced, plus the versions it wrote
FactView(w) == (salesDaily \ txFacts[w].dead) \cup txFacts[w].new

ProductView(w) == products \cup txProducts[w]

OrgView(w) == organizations \cup txOrgs[w]

\* rows of the table on the conflict target (product_id, date) of `row`
Conflicts(table, row) ==
    {f \in table : f.product_id = row.product_id /\ f.date = row.date}

\* variant: a plain insert, no conflict target
InsertOnly(table, row) == table \cup {row}

\* insert(SalesDaily).values(...).on_conflict_do_update(
\*     index_elements=[product_id, date], set_={units_sold, price, revenue})
OnConflictDoUpdate(table, row) ==
    IF Conflicts(table, row) = {}
    THEN table \cup {row}
    ELSE {IF f \in Conflicts(table, row)
          THEN [f EXCEPT !.units_sold = row.units_sold, !.price = row.price,
                         !.revenue = row.revenue]
          ELSE f : f \in table}

\* variant: the UPDATE without its WHERE clause
UpdateStatusNoWhere(updates, raw_id, status, error) ==
    {[raw_id |-> i, status |-> status, error_message |-> error] : i \in RawIds}

\* update(RawSales).where(RawSales.raw_id == raw_id).values(status, error_message)
UpdateStatus(updates, raw_id, status, error) ==
    {u \in updates : u.raw_id # raw_id}
        \cup {[raw_id |-> raw_id, status |-> status, error_message |-> error]}

\* variant: the UPDATE also empties raw_json
ApplyUpdatesClearsPayload(table, updates) ==
    [i \in DOMAIN table |->
        IF \E u \in updates : u.raw_id = i
        THEN LET u == CHOOSE x \in updates : x.raw_id = i
             IN  [table[i] EXCEPT !.status = u.status,
                                  !.error_message = u.error_message,
                                  !.raw_json = Payload(Absent, Absent, Absent, Absent,
                                                       Absent, Absent, Absent, Absent)]
        ELSE table[i]]

\* the committed raw_sales table after the transaction's updates
ApplyUpdates(table, updates) ==
    [i \in DOMAIN table |->
        IF \E u \in updates : u.raw_id = i
        THEN LET u == CHOOSE x \in updates : x.raw_id = i
             IN  [table[i] EXCEPT !.status = u.status,
                                  !.error_message = u.error_message]
        ELSE table[i]]

\* variant: the select without with_for_update(skip_locked=True)
ClaimableNoSkip(w) ==
    {i \in RawIds : rawSales[i].status = "pending"}

\* variant: the select without where(status == "pending")
ClaimableAnyStatus(w) ==
    {i \in RawIds : \A v \in Workers \ {w} : i \notin rowLocks[v]}

\* select(RawSales).where(status == "pending").with_for_update(skip_locked=True)
Claimable(w) ==
    {i \in RawIds : /\ rawSales[i].status = "pending"
                    /\ \A v \in Workers \ {w} : i \notin rowLocks[v]}

\* variant: the select without limit(batch_size)
NoLimit(n) == n

\* .limit(batch_size)
Limit(n) == IF n < BatchSize THEN n ELSE BatchSize

\* the result of the claim: the rows come in no particular order
Batches(avail) ==
    {b \in [1..Limit(Cardinality(avail)) -> avail] :
        \A i, j \in DOMAIN b : i # j => b[i] # b[j]}

CurRaw(w) == raw_rows[w][idx[w]]

CurRow(w) == Normalize(rawSales[CurRaw(w)].raw_json)

\* a uuid4() no organization has
FreshOrg ==
    CHOOSE o \in 1..(Cardinality(Workers) + 1) :
        /\ o \notin organizations
        /\ \A v \in Workers : o \notin txOrgs[v]
        /\ \A q \in 1..(o - 1) :
              q \in organizations \/ \E v \in Workers : q \in txOrgs[v]

\* variant: Product(...) without id=product_id, the column default assigns one
AutoProductDefaultId(product_id, org_id) ==
    [id |-> 0, org_id |-> org_id, sku |-> "AUTO"]

\* Product(id=product_id, org_id=org.id, sku="AUTO-...", name=..., currency="USD")
AutoProduct(product_id, org_id) ==
    [id |-> product_id, org_id |-> org_id, sku |-> "AUTO"]

\* transactions with an uncommitted insert of the product id (the insert waits)
ProductHolders(w) ==
    {v \in Workers \ {w} : \E p \in txProducts[v] : p.id = CurRow(w).product_id}

\* transactions holding the row lock of the (product, date) key (the upsert waits)
FactHolders(w) ==
    {v \in Workers \ {w} :
        <<CurRow(w).product_id, CurRow(w).date>> \in factLocks[v]}

WaitsFor(w) ==
    IF pc[w] = "insert_product" THEN ProductHolders(w)
    ELSE IF pc[w] = "upsert" THEN FactHolders(w)
    ELSE {}

RECURSIVE ReachFrom(_, _)
ReachFrom(S, n) ==
    IF n = 0 THEN S
    ELSE ReachFrom(S \cup UNION {WaitsFor(v) : v \in S}, n - 1)

\* the store's deadlock detector: w waits in a cycle of waiting transactions
InDeadlock(w) == w \in ReachFrom(WaitsFor(w), Cardinality(Workers))

-----------------------------------------------------------------------------
(* Analytical services (services/elasticity.py, forecasting.py, pricing.py): *)
(* requests, sessions and rows.  One call runs at a time, in a session of    *)
(* its own (routers/ml.py).  Prices inside recommend_prices are counted in   *)
(* halves of the fact table's price unit, so that 0.5 x and 1.5 x the        *)
(* baseline price are integers.                                              *)

\* calls made one after the other
MaxCalls == 3

\* largest horizon argument
MaxHorizon == 2

\* an optional argument: None, or a value
None == [given |-> FALSE, v |-> 0]
Some(x) == [given |-> TRUE, v |-> x]
NoDates == [given |-> FALSE, v |-> <<>>]

NoRequest ==
    [op |-> "none", product_id |-> 0, window_days |-> 0, horizon |-> 0,
     min_data_days |-> 0, objective |-> "", pmin |-> None, pmax |-> None,
     target_dates |-> NoDates, min_price_variance |-> 0, min_r2_threshold |-> 0,
     test_days |-> 0]

\* estimate_elasticity(session, product_id, window_days, min_price_variance,
\* min_r2_threshold): the two thresholds in hundredths (0.1 and 0.2 by default)
EstimateRequest(product_id, window_days, min_price_variance, min_r2_threshold) ==
    [NoRequest EXCEPT !.op = "estimate_elasticity", !.product_id = product_id,
                      !.window_days = window_days,
                      !.min_price_variance = min_price_variance,
                      !.min_r2_threshold = min_r2_threshold]

\* run_forecast(session, product_id, horizon, min_data_days, test_days)
ForecastRequest(product_id, horizon, min_data_days, test_days) ==
    [NoRequest EXCEPT !.op = "run_forecast", !.product_id = product_id,
                      !.horizon = horizon, !.min_data_days = min_data_days,
                      !.test_days = test_days]

\* recommend_prices(session, product_id, objective, pmin, pmax, target_dates, horizon)
RecommendRequest(product_id, objective, pmin, pmax, target_dates, horizon) ==
    [NoRequest EXCEPT !.op = "recommend_prices", !.product_id = product_id,
                      !.objective = objective, !.pmin = pmin, !.pmax = pmax,
                      !.target_dates = target_dates, !.horizon = horizon]

\* ModelRun(id, model_name, params): of params, the horizon, the target dates
\* and the confidence
NoRun ==
    [id |-> 0, model_name |-> "", horizon |-> 0, target_dates |-> <<>>,
     confidence |-> ""]

NoSession == [model_run |-> NoRun, rows |-> {}]

NoLocals ==
    [elasticity |-> 0, r2 |-> 0, confidence |-> "",
     baseline_price |-> 0, baseline_quantity |-> 0,
     pmin |-> 0, pmax |-> 0, unit_cost |-> None,
     target_dates |-> <<>>, forecasts |-> {},
     prices |-> <<>>, quantities |-> <<>>, optimal |-> <<>>,
     train |-> {}, test |-> {},
     future_dates |-> <<>>, future_predictions |-> <<>>,
     recommendations |-> <<>>]

NoResponse ==
    [ok |-> FALSE, error |-> NULL, model_run_id |-> 0, confidence |-> "",
     forecasts |-> <<>>, recommendations |-> <<>>, status |-> ""]

\* no analytical table has a row, no analytical call runs
NoAnalytics ==
    /\ modelRuns = {}
    /\ elasticityEstimates = {}
    /\ forecasts = {}
    /\ priceRecommendations = {}
    /\ costs = {}
    /\ request = NoRequest
    /\ step = "idle"
    /\ session = NoSession
    /\ locals = NoLocals
    /\ response = NoResponse
    /\ calls = 0

-----------------------------------------------------------------------------
(* Initial state: the schema has just been created, no worker runs *)

NoFact == [product_id |-> 0, date |-> 0, units_sold |-> 0, price |-> 0, revenue |-> 0]

Idle ==
    /\ pc = [w \in Workers |-> "idle"]
    /\ raw_rows = [w \in Workers |-> <<>>]
    /\ idx = [w \in Workers |-> 0]
    /\ org = [w \in Workers |-> 0]
    /\ txRaw = [w \in Workers |-> {}]
    /\ txFacts = [w \in Workers |-> NoTx]
    /\ txProducts = [w \in Workers |-> {}]
    /\ txOrgs = [w \in Workers |-> {}]
    /\ rowLocks = [w \in Workers |-> {}]
    /\ factLocks = [w \in Workers |-> {}]
    /\ raised = [w \in Workers |-> NULL]

Init ==
    /\ rawSales = <<>>
    /\ salesDaily = {}
    /\ products = {}
    /\ organizations = {}
    /\ lastLoaded = [k \in Keys |-> NoFact]
    /\ kills = 0
    /\ Idle
    /\ NoAnalytics

-----------------------------------------------------------------------------
(* Payloads uploaded in the concurrent specification *)

Palette ==
    { \* a valid record for (product 1, date 1)
      Payload(Uuid(1), Absent, Iso(1), Num(2), Absent, Num(3), Absent, Absent),
      \* a valid record for the same key, alias keys, explicit revenue
      Payload(Absent, Uuid(1), Iso(1), Absent, Num(1), Absent, Num(2), Num(5)),
      \* a valid record for (product 2, date 1)
      Payload(Uuid(2), Absent, Iso(1), Num(1), Absent, Num(1), Absent, Absent),
      \* negative units: fails the schema
      Payload(Uuid(1), Absent, Iso(1), Num(-1), Absent, Num(3), Absent, Absent),
      \* unparseable date: fromisoformat raises
      Payload(Uuid(2), Absent, Text, Num(1), Absent, Num(1), Absent, Absent) }

-----------------------------------------------------------------------------
(* Actions *)

txVars == <<txRaw, txFacts, txProducts, txOrgs, factLocks>>
dbVars == <<rawSales, salesDaily, products, organizations>>

\* POST /sales/bulk: db.add(RawSales(source, raw_json, status="pending")); commit.
\* uploaded_at is the server default now(), here the number of the upload.
Upload(payload) ==
    /\ Len(rawSales) < MaxRecords
    /\ rawSales' = Append(rawSales,
                          [raw_json |-> payload, status |-> "pending",
                           error_message |-> NULL, source |-> "api",
                           uploaded_at |-> Len(rawSales) + 1])
    /\ UNCHANGED <<salesDaily, products, organizations, pc, raw_rows, idx, org,
                   txVars, rowLocks, raised, lastLoaded, kills>>
    /\ UNCHANGED mlVars

\* a worker process (main of etl/worker.py) calls run_etl with a new session
Invoke(w) ==
    /\ pc[w] \in {"idle", "done", "aborted", "terminated"}
    /\ pc' = [pc EXCEPT ![w] = "claim"]
    /\ raw_rows' = [raw_rows EXCEPT ![w] = <<>>]
    /\ idx' = [idx EXCEPT ![w] = 0]
    /\ raised' = [raised EXCEPT ![w] = NULL]
    /\ UNCHANGED <<dbVars, org, txVars, rowLocks, lastLoaded, kills>>
    /\ UNCHANGED mlVars

\* 1) Extract: claim up to batch_size pending rows; leave the loop on none
Claim(w) ==
    /\ pc[w] = "claim"
    /\ IF Claimable(w) = {}
       THEN /\ pc' = [pc EXCEPT ![w] = "done"]
            /\ raw_rows' = [raw_rows EXCEPT ![w] = <<>>]
            /\ idx' = [idx EXCEPT ![w] = 0]
            /\ UNCHANGED rowLocks
       ELSE \E b \in Batches(Claimable(w)) :
            /\ raw_rows' = [raw_rows EXCEPT ![w] = b]
            /\ idx' = [idx EXCEPT ![w] = 1]
            /\ rowLocks' = [rowLocks EXCEPT ![w] = Range(b)]
            /\ pc' = [pc EXCEPT ![w] = "transform"]
    /\ UNCHANGED <<dbVars, org, txVars, raised, lastLoaded, kills>>
    /\ UNCHANGED mlVars

\* the for loop moves to the next claimed row, or to the commit after the last
Advance(w) ==
    IF idx[w] < Len(raw_rows[w])
    THEN /\ idx' = [idx EXCEPT ![w] = idx[w] + 1]
         /\ pc' = [pc EXCEPT ![w] = "transform"]
    ELSE /\ idx' = idx
         /\ pc' = [pc EXCEPT ![w] = "commit"]

\* 2) Transform one row; a row that does not normalize is marked failed by one
\*    of the two except clauses; otherwise ensure_product_exists looks the
\*    product up
Transform(w) ==
    /\ pc[w] = "transform"
    /\ IF ~CurRow(w).ok
       THEN /\ txRaw' = [txRaw EXCEPT ![w] =
                            UpdateStatus(txRaw[w], CurRaw(w), "failed", CurRow(w).err)]
            /\ Advance(w)
       ELSE /\ pc' = [pc EXCEPT ![w] =
                        IF \E p \in ProductView(w) : p.id = CurRow(w).product_id
                        THEN "upsert" ELSE "ensure_org"]
            /\ UNCHANGED <<txRaw, idx>>
    /\ UNCHANGED <<dbVars, raw_rows, org, txFacts, txProducts, txOrgs, factLocks,
                   rowLocks, raised, lastLoaded, kills>>
    /\ UNCHANGED mlVars

\* ensure_product_exists: select(Organization).limit(1), or add a default one
EnsureOrg(w) ==
    /\ pc[w] = "ensure_org"
    /\ IF OrgView(w) # {}
       THEN /\ \E o \in OrgView(w) : org' = [org EXCEPT ![w] = o]
            /\ UNCHANGED txOrgs
       ELSE /\ org' = [org EXCEPT ![w] = FreshOrg]
            /\ txOrgs' = [txOrgs EXCEPT ![w] = {FreshOrg}]
    /\ pc' = [pc EXCEPT ![w] = "insert_product"]
    /\ UNCHANGED <<dbVars, raw_rows, idx, txRaw, txFacts, txProducts, factLocks,
                   rowLocks, raised, lastLoaded, kills>>
    /\ UNCHANGED mlVars

\* variant: a connection in autocommit mode, every UPDATE of raw_sales is final
RollbackAutocommitted(w) ==
    /\ txRaw' = [txRaw EXCEPT ![w] = {}]
    /\ txFacts' = [txFacts EXCEPT ![w] = NoTx]
    /\ txProducts' = [txProducts EXCEPT ![w] = {}]
    /\ txOrgs' = [txOrgs EXCEPT ![w] = {}]
    /\ rowLocks' = [rowLocks EXCEPT ![w] = {}]
    /\ factLocks' = [factLocks EXCEPT ![w] = {}]
    /\ org' = [org EXCEPT ![w] = 0]
    /\ rawSales' = ApplyUpdates(rawSales, txRaw[w])
    /\ UNCHANGED <<salesDaily, products, organizations, lastLoaded>>

\* the transaction ends without a commit: its writes are gone, its locks released
Rollback(w) ==
    /\ txRaw' = [txRaw EXCEPT ![w] = {}]
    /\ txFacts' = [txFacts EXCEPT ![w] = NoTx]
    /\ txProducts' = [txProducts EXCEPT ![w] = {}]
    /\ txOrgs' = [txOrgs EXCEPT ![w] = {}]
    /\ rowLocks' = [rowLocks EXCEPT ![w] = {}]
    /\ factLocks' = [factLocks EXCEPT ![w] = {}]
    /\ org' = [org EXCEPT ![w] = 0]
    /\ UNCHANGED <<dbVars, lastLoaded>>

\* ensure_product_exists: session.add(product); flush.  The insert waits for an
\* uncommitted insert of the same id.
InsertProduct(w) ==
    /\ pc[w] = "insert_product"
    /\ ProductHolders(w) = {}
    /\ \A p \in products : p.id # CurRow(w).product_id
    /\ txProducts' = [txProducts EXCEPT ![w] =
                        txProducts[w] \cup {AutoProduct(CurRow(w).product_id, org[w])}]
    /\ pc' = [pc EXCEPT ![w] = "upsert"]
    /\ UNCHANGED <<dbVars, raw_rows, idx, org, txRaw, txFacts, txOrgs, factLocks,
                   rowLocks, raised, lastLoaded, kills>>
    /\ UNCHANGED mlVars

\* The product was committed by another transaction after the lookup: the flush
\* fails on the primary key and the session rolls its transaction back.
\* ensure_product_exists returns False, run_etl raises, and the UPDATE of the
\* except clause raises again on the rolled-back session: run_etl is left.
InsertProductFails(w) ==
    /\ pc[w] = "insert_product"
    /\ ProductHolders(w) = {}
    /\ \E p \in products : p.id = CurRow(w).product_id
    /\ Rollback(w)
    /\ pc' = [pc EXCEPT ![w] = "aborted"]
    /\ raised' = [raised EXCEPT ![w] = "PendingRollbackError"]
    /\ UNCHANGED <<raw_rows, idx, kills>>
    /\ UNCHANGED mlVars

\* variant: the record is marked processed without the upsert statement
MarkedOnly(w) ==
    /\ pc[w] = "upsert"
    /\ txRaw' = [txRaw EXCEPT ![w] =
                    UpdateStatus(txRaw[w], CurRaw(w), "processed", NULL)]
    /\ Advance(w)
    /\ UNCHANGED <<dbVars, raw_rows, org, txFacts, txProducts, txOrgs, factLocks,
                   rowLocks, raised, lastLoaded, kills>>
    /\ UNCHANGED mlVars

\* 3) Load and 4) mark processed.  The upsert waits while another transaction
\*    holds the row of the same (product_id, date).
Upsert(w) ==
    /\ pc[w] = "upsert"
    /\ FactHolders(w) = {}
    /\ LET view == OnConflictDoUpdate(FactView(w), FactOf(CurRow(w)))
       IN  txFacts' = [txFacts EXCEPT ![w] =
                         [dead |-> salesDaily \ view, new |-> view \ salesDaily]]
    /\ factLocks' = [factLocks EXCEPT ![w] =
                        factLocks[w] \cup {<<CurRow(w).product_id, CurRow(w).date>>}]
    /\ txRaw' = [txRaw EXCEPT ![w] =
                    UpdateStatus(txRaw[w], CurRaw(w), "processed", NULL)]
    /\ Advance(w)
    /\ UNCHANGED <<dbVars, raw_rows, org, txProducts, txOrgs, rowLocks, raised,
                   lastLoaded, kills>>
    /\ UNCHANGED mlVars

\* The store breaks a deadlock by failing the statement of one waiting
\* transaction, which aborts that transaction.  The UPDATE of the except clause
\* then raises on the aborted transaction: run_etl is left.
DeadlockAbort(w) ==
    /\ InDeadlock(w)
    /\ Rollback(w)
    /\ pc' = [pc EXCEPT ![w] = "aborted"]
    /\ raised' = [raised EXCEPT ![w] =
                    IF pc[w] = "insert_product" THEN "PendingRollbackError"
                    ELSE "InFailedSQLTransactionError"]
    /\ UNCHANGED <<raw_rows, idx, kills>>
    /\ UNCHANGED mlVars

\* indices of the batch whose record was loaded for the key
LoadedFor(w, key) ==
    {i \in DOMAIN raw_rows[w] :
        LET n == Normalize(rawSales[raw_rows[w][i]].raw_json)
        IN  n.ok /\ <<n.product_id, n.date>> = key}

Max(S) == CHOOSE x \in S : \A y \in S : y <= x

\* await session.commit(): the batch becomes visible at once, the locks go
Commit(w) ==
    /\ pc[w] = "commit"
    /\ rawSales' = ApplyUpdates(rawSales, txRaw[w])
    /\ salesDaily' = FactView(w)
    /\ products' = ProductView(w)
    /\ organizations' = OrgView(w)
    /\ lastLoaded' =
          [k \in Keys |->
              IF LoadedFor(w, k) = {} THEN lastLoaded[k]
              ELSE FactOf(Normalize(
                       rawSales[raw_rows[w][Max(LoadedFor(w, k))]].raw_json))]
    /\ txRaw' = [txRaw EXCEPT ![w] = {}]
    /\ txFacts' = [txFacts EXCEPT ![w] = NoTx]
    /\ txProducts' = [txProducts EXCEPT ![w] = {}]
    /\ txOrgs' = [txOrgs EXCEPT ![w] = {}]
    /\ rowLocks' = [rowLocks EXCEPT ![w] = {}]
    /\ factLocks' = [factLocks EXCEPT ![w] = {}]
    /\ org' = [org EXCEPT ![w] = 0]
    /\ pc' = [pc EXCEPT ![w] = "claim"]
    /\ UNCHANGED <<raw_rows, idx, raised, kills>>
    /\ UNCHANGED mlVars

InBatch == {"transform", "ensure_org", "insert_product", "upsert", "commit"}

\* the worker process is terminated inside a batch: the store rolls back
Terminate(w) ==
    /\ pc[w] \in InBatch
    /\ kills < MaxKills
    /\ kills' = kills + 1
    /\ Rollback(w)
    /\ pc' = [pc EXCEPT ![w] = "terminated"]
    /\ UNCHANGED <<raw_rows, idx, raised>>
    /\ UNCHANGED mlVars

\* No cycle of waiting transactions is reachable with fewer than four staging
\* records (NoWaitCycle below), so DeadlockAbort is an action of SpecOverlap only.
Next ==
    \/ \E payload \in Palette : Upload(payload)
    \/ \E w \in Workers : Invoke(w)
    \/ \E w \in Workers : Claim(w)
    \/ \E w \in Workers : Transform(w)
    \/ \E w \in Workers : EnsureOrg(w)
    \/ \E w \in Workers : InsertProduct(w)
    \/ \E w \in Workers : InsertProductFails(w)
    \/ \E w \in Workers : Upsert(w)
    \/ \E w \in Workers : Commit(w)
    \/ \E w \in Workers : Terminate(w)

Spec == Init /\ [][Next]_vars

NoWaitCycle == \A w \in Workers : ~InDeadlock(w)

-----------------------------------------------------------------------------
(* One worker, one invocation of run_etl over records uploaded beforehand *)

\* number of records pending when the single run starts
PendingAtStart == 3

Pending(payload) ==
    [raw_json |-> payload, status |-> "pending", error_message |-> NULL,
     source |-> "api", uploaded_at |-> 0]

Running(w) ==
    /\ pc = [v \in Workers |-> IF v = w THEN "claim" ELSE "idle"]
    /\ raw_rows = [v \in Workers |-> <<>>]
    /\ idx = [v \in Workers |-> 0]
    /\ org = [v \in Workers |-> 0]
    /\ txRaw = [v \in Workers |-> {}]
    /\ txFacts = [v \in Workers |-> NoTx]
    /\ txProducts = [v \in Workers |-> {}]
    /\ txOrgs = [v \in Workers |-> {}]
    /\ rowLocks = [v \in Workers |-> {}]
    /\ factLocks = [v \in Workers |-> {}]
    /\ raised = [v \in Workers |-> NULL]

InitSingle ==
    /\ \E n \in 0..PendingAtStart :
          rawSales \in [1..n -> {Pending(p) : p \in Palette}]
    /\ salesDaily = {}
    /\ products = {}
    /\ organizations = {}
    /\ lastLoaded = [k \in Keys |-> NoFact]
    /\ kills = 0
    /\ Running("w1")
    /\ NoAnalytics

\* the steps of the one running worker; with no other transaction no insert
\* can meet a concurrently committed product, and no statement waits
NextSingle ==
    \/ Claim("w1")
    \/ Transform("w1")
    \/ EnsureOrg("w1")
    \/ InsertProduct("w1")
    \/ Upsert("w1")
    \/ Commit("w1")

\* the event loop runs the coroutine as long as it can take a step
SpecSingle == InitSingle /\ [][NextSingle]_vars /\ WF_vars(NextSingle)

-----------------------------------------------------------------------------
(* One worker that may be terminated inside a batch and is invoked again *)

InitRecover ==
    /\ \E n \in 0..MaxRecords :
          rawSales \in [1..n -> {Pending(p) : p \in Palette}]
    /\ salesDaily = {}
    /\ products = {}
    /\ organizations = {}
    /\ lastLoaded = [k \in Keys |-> NoFact]
    /\ kills = 0
    /\ Running("w1")
    /\ NoAnalytics

NextRecover ==
    \/ NextSingle
    \/ Invoke("w1")
    \/ Terminate("w1")

\* the event loop runs every step the coroutine can take, and a caller invokes
\* run_etl again after it returned or its process was terminated
SpecRecover ==
    InitRecover /\ [][NextRecover]_vars /\ WF_vars(NextSingle \/ Invoke("w1"))

-----------------------------------------------------------------------------
(* Two workers over four records of two keys: upserts in opposite orders.   *)
(* The products of the records are missing, or they were created before.   *)

InitOverlap ==
    /\ rawSales \in [1..4 -> {Pending(p) :
                               p \in {q \in Palette : Normalize(q).ok}}]
    /\ salesDaily = {}
    /\ \/ products = {} /\ organizations = {}
       \/ products = {AutoProduct(i, 1) : i \in ProductIds} /\ organizations = {1}
    /\ lastLoaded = [k \in Keys |-> NoFact]
    /\ kills = 0
    /\ pc = [v \in Workers |-> "claim"]
    /\ raw_rows = [v \in Workers |-> <<>>]
    /\ idx = [v \in Workers |-> 0]
    /\ org = [v \in Workers |-> 0]
    /\ txRaw = [v \in Workers |-> {}]
    /\ txFacts = [v \in Workers |-> NoTx]
    /\ txProducts = [v \in Workers |-> {}]
    /\ txOrgs = [v \in Workers |-> {}]
    /\ rowLocks = [v \in Workers |-> {}]
    /\ factLocks = [v \in Workers |-> {}]
    /\ raised = [v \in Workers |-> NULL]
    /\ NoAnalytics

NextOverlap ==
    \/ \E w \in Workers : Claim(w)
    \/ \E w \in Workers : Transform(w)
    \/ \E w \in Workers : EnsureOrg(w)
    \/ \E w \in Workers : InsertProduct(w)
    \/ \E w \in Workers : InsertProductFails(w)
    \/ \E w \in Workers : Upsert(w)
    \/ \E w \in Workers : DeadlockAbort(w)
    \/ \E w \in Workers : Commit(w)

SpecOverlap == InitOverlap /\ [][NextOverlap]_vars

-----------------------------------------------------------------------------
(* One worker, one pending record with any payload, with or without a fact  *)
(* already loaded for (product 1, date 1)                                   *)

Payloads ==
    {Payload(pid, pidAlt, dt, us, qty, pr, upr, rev) :
        pid \in {Absent, Uuid(1), Null, Empty, Text},
        pidAlt \in {Absent, Uuid(2)},
        dt \in {Absent, Iso(1), Empty, Text, Num(5)},
        us \in {Absent, Num(-1), Num(0), Num(2), Null},
        qty \in {Absent, Num(1)},
        pr \in {Absent, Num(-1), Num(0), Num(3), Null, Text},
        upr \in {Absent, Num(2)},
        rev \in {Absent, Null, Num(0), Num(5), Text}}

\* the record an earlier run loaded: units 2 at price 3 for (product 1, date 1)
PriorPayload ==
    Payload(Uuid(1), Absent, Iso(1), Num(2), Absent, Num(3), Absent, Absent)

PriorFact == FactOf(Normalize(PriorPayload))

InitRow ==
    /\ \E payload \in Payloads :
        \/ /\ rawSales = <<Pending(payload)>>
           /\ salesDaily = {}
           /\ products = {}
           /\ organizations = {}
           /\ lastLoaded = [k \in Keys |-> NoFact]
        \/ /\ rawSales = <<[Pending(PriorPayload) EXCEPT !.status = "processed"],
                           Pending(payload)>>
           /\ salesDaily = {PriorFact}
           /\ products = {AutoProduct(1, 1)}
           /\ organizations = {1}
           /\ lastLoaded = [k \in Keys |->
                              IF k = <<1, 1>> THEN PriorFact ELSE NoFact]
    /\ kills = 0
    /\ Running("w1")
    /\ NoAnalytics

SpecRow == InitRow /\ [][NextSingle]_vars

\* the record SpecRow's run is about
TheRow == rawSales[Len(rawSales)]

-----------------------------------------------------------------------------
(* Analytical services: the three calls, step by step *)

etlVars == <<rawSales, salesDaily, products, organizations, pc, raw_rows, idx,
             org, txRaw, txFacts, txProducts, txOrgs, rowLocks, factLocks,
             raised, lastLoaded, kills>>

mlTables == <<modelRuns, elasticityEstimates, forecasts, priceRecommendations>>

\* if len(sales_data) < 10
MinSalesRecords == 10

\* if len(df) < 5
MinValidPoints == 5

\* the longest lag of engineer_features: for lag in [1, 7, 14, 28]
MaxLag == 28

\* values the fitted regression coefficient takes
Elasticities == {-2, 0}

\* values the trained model predicts for a future date
Predictions == {-1, 2}

\* the import of lightgbm succeeded when the module was loaded
LIGHTGBM_AVAILABLE == TRUE

\* uuid4(): an id no model run has; a larger id is a later created_at
FreshRunId ==
    IF modelRuns = {} THEN 1 ELSE 1 + Max({m.id : m \in modelRuns})

\* The call is left by an exception: `async with session_factory()` closes the
\* session, which rolls back whatever was flushed and not committed.
Raise(error) ==
    /\ step' = "failed"
    /\ response' = [NoResponse EXCEPT !.error = error]
    /\ session' = NoSession
    /\ UNCHANGED <<mlTables, locals>>

\* a router of routers/ml.py opens a session and calls the service function
Call(req) ==
    /\ step = "idle"
    /\ calls < MaxCalls
    /\ calls' = calls + 1
    /\ request' = req
    /\ step' = "query"
    /\ session' = NoSession
    /\ locals' = NoLocals
    /\ response' = NoResponse
    /\ UNCHANGED <<etlVars, costs, mlTables>>

\* the router has sent the response (the result, or HTTP 400 / 500)
Finish ==
    /\ step \in {"returned", "failed"}
    /\ step' = "idle"
    /\ request' = NoRequest
    /\ locals' = NoLocals
    /\ response' = NoResponse
    /\ UNCHANGED <<etlVars, costs, mlTables, session, calls>>

\* After the flush a statement fails, the connection is lost or the process is
\* terminated: the call is left with rows flushed and not committed.
Crash ==
    /\ step = "add_rows"
    /\ Raise("Terminated")
    /\ UNCHANGED <<etlVars, costs, request, calls>>

(* estimate_elasticity *)

\* where(product_id == product_id, date >= start_date, date <= end_date)
InWindow(product_id, window_days) ==
    {f \in salesDaily : /\ f.product_id = product_id
                        /\ f.date >= Today - window_days
                        /\ f.date <= Today}

\* variant: the rows are not cleaned
NotCleaned(rows) == rows

\* np.log of price and units, then replace([inf, -inf], nan).dropna(): the rows
\* with units > 0 and price > 0 remain
Cleaned(rows) == {f \in rows : f.units_sold > 0 /\ f.price > 0}

\* X'X is singular when every remaining row has the same price
Singular(rows) == \A f, g \in rows : f.price = g.price

RECURSIVE SumPrice(_)
SumPrice(rows) ==
    IF rows = {} THEN 0
    ELSE LET f == CHOOSE x \in rows : TRUE
         IN  f.price + SumPrice(rows \ {f})

RECURSIVE SumPriceSquared(_)
SumPriceSquared(rows) ==
    IF rows = {} THEN 0
    ELSE LET f == CHOOSE x \in rows : TRUE
         IN  f.price * f.price + SumPriceSquared(rows \ {f})

\* price_cv < min_price_variance, with price_cv = std() / mean() over every row
\* of the window (sample standard deviation): for n rows of sum S and sum of
\* squares Q, std^2 = (n Q - S^2) / (n (n - 1)) and mean = S / n.  A mean of 0
\* gives NaN, which is below nothing.
PriceCvBelow(rows, min_price_variance) ==
    LET n == Cardinality(rows)
        S == SumPrice(rows)
        Q == SumPriceSquared(rows)
    IN  /\ S > 0
        /\ 10000 * n * (n * Q - S * S)
              < min_price_variance * min_price_variance * (n - 1) * S * S

\* values of R2 in hundredths
R2s == {19, 20}

\* lines 70-74: the label after the price variance check
VarianceLabel(low_price_variance) ==
    IF low_price_variance THEN "low_price_variance" ELSE "high"

\* variant: the R2 check leaves a label that is already low
FitLabelKeepsFirst(confidence, r2, min_r2_threshold) ==
    IF r2 < min_r2_threshold /\ confidence = "high" THEN "low_r2" ELSE confidence

\* lines 106-107: the label after the R2 check
FitLabel(confidence, r2, min_r2_threshold) ==
    IF r2 < min_r2_threshold THEN "low_r2" ELSE confidence

\* lines 43-113: query the window, check the sizes, fit ln(q) = a + b ln(p)
EstimateFit ==
    /\ step = "query"
    /\ request.op = "estimate_elasticity"
    /\ LET sales_data == InWindow(request.product_id, request.window_days)
           df == Cleaned(sales_data)
       IN  IF Cardinality(sales_data) < MinSalesRecords
           THEN Raise("Insufficient data")
           ELSE IF Cardinality(df) < MinValidPoints
           THEN Raise("Insufficient valid data points after cleaning")
           ELSE \/ /\ Singular(df)
                   /\ Raise("Failed to calculate elasticity")
                \/ \E b \in Elasticities, r2 \in R2s :
                      /\ locals' =
                            [NoLocals EXCEPT
                                !.elasticity = b,
                                !.r2 = r2,
                                !.confidence =
                                    FitLabel(
                                        VarianceLabel(
                                            PriceCvBelow(sales_data,
                                                request.min_price_variance)),
                                        r2, request.min_r2_threshold)]
                      /\ step' = "add_model_run"
                      /\ UNCHANGED <<mlTables, session, response>>
    /\ UNCHANGED <<etlVars, costs, request, calls>>

\* session.add(model_run); await session.flush()
EstimateFlush ==
    /\ step = "add_model_run"
    /\ request.op = "estimate_elasticity"
    /\ session' = [model_run |-> [NoRun EXCEPT !.id = FreshRunId,
                                               !.model_name = "log_log_ols",
                                               !.confidence = locals.confidence],
                   rows |-> {}]
    /\ step' = "add_rows"
    /\ UNCHANGED <<etlVars, costs, mlTables, request, locals, response, calls>>

\* session.add(elasticity_estimate); await session.commit(); return {...}
EstimateCommit ==
    /\ step = "add_rows"
    /\ request.op = "estimate_elasticity"
    /\ modelRuns' = modelRuns \cup {session.model_run}
    /\ elasticityEstimates' = elasticityEstimates \cup
          {[product_id |-> request.product_id,
            model_run_id |-> session.model_run.id,
            elasticity |-> locals.elasticity]}
    /\ session' = NoSession
    /\ step' = "returned"
    /\ response' = [NoResponse EXCEPT !.ok = TRUE,
                                      !.model_run_id = session.model_run.id,
                                      !.confidence = locals.confidence]
    /\ UNCHANGED <<etlVars, costs, forecasts, priceRecommendations, request, locals,
                   calls>>

(* run_forecast *)

\* engineer_features: the shift by the longest lag leaves NaN in the first
\* MaxLag rows by date, and dropna removes them
Featured(rows) ==
    {f \in rows : Cardinality({g \in rows : g.date < f.date}) >= MaxLag}

\* float(max(0, prediction))
Clip(prediction) == IF 0 > prediction THEN 0 ELSE prediction

\* the first position of df.iloc[k:], the length of df.iloc[:k], for n rows: a
\* negative k counts from the end
SliceStart(n, k) ==
    IF k < 0 THEN (IF n + k < 0 THEN 0 ELSE n + k)
    ELSE IF k > n THEN n ELSE k

\* position of a row among the rows in date order, from 0
Position(rows, f) == Cardinality({g \in rows : g.date < f.date})

\* lines 92-176: query the history, check the sizes, split, train, predict the
\* future dates.  Training and evaluation are not modelled: fit raises on an
\* empty training set, and otherwise they raise or they give one prediction
\* per future date.
ForecastFit ==
    /\ step = "query"
    /\ request.op = "run_forecast"
    /\ LET sales_data == {f \in salesDaily : f.product_id = request.product_id}
           df_features == Featured(sales_data)
           last_date == Max({f.date : f \in df_features})
           split_idx == Cardinality(df_features) - request.test_days
           start == SliceStart(Cardinality(df_features), split_idx)
           train_df == {f \in df_features : Position(df_features, f) < start}
           test_df == {f \in df_features : Position(df_features, f) >= start}
       IN  IF ~LIGHTGBM_AVAILABLE
           THEN Raise("LightGBM not available")
           ELSE IF Cardinality(sales_data) < request.min_data_days
           THEN Raise("Insufficient data")
           ELSE IF Cardinality(df_features) < request.min_data_days
           THEN Raise("Insufficient data after feature engineering")
           ELSE IF train_df = {}
           THEN Raise("Found array with 0 sample(s)")
           ELSE \/ Raise("LightGBMError")
                \/ \E predictions \in [1..request.horizon -> Predictions] :
                      /\ locals' =
                            [NoLocals EXCEPT
                                !.train = {f.date : f \in train_df},
                                !.test = {f.date : f \in test_df},
                                !.future_dates =
                                    [i \in 1..request.horizon |-> last_date + i],
                                !.future_predictions = predictions]
                      /\ step' = "add_model_run"
                      /\ UNCHANGED <<mlTables, session, response>>
    /\ UNCHANGED <<etlVars, costs, request, calls>>

\* session.add(model_run); await session.flush()
ForecastFlush ==
    /\ step = "add_model_run"
    /\ request.op = "run_forecast"
    /\ session' = [model_run |-> [NoRun EXCEPT !.id = FreshRunId,
                                               !.model_name = "lightgbm_forecast",
                                               !.horizon = request.horizon],
                   rows |-> {}]
    /\ step' = "add_rows"
    /\ UNCHANGED <<etlVars, costs, mlTables, request, locals, response, calls>>

\* session.add_all(forecasts); await session.commit(); return {...}: the rows
\* carry the clipped predictions, the returned list is built from
\* future_predictions
ForecastCommit ==
    /\ step = "add_rows"
    /\ request.op = "run_forecast"
    /\ modelRuns' = modelRuns \cup {session.model_run}
    /\ forecasts' = forecasts \cup
          {[id |-> i,
            product_id |-> request.product_id,
            model_run_id |-> session.model_run.id,
            target_date |-> locals.future_dates[i],
            predicted_units |-> Clip(locals.future_predictions[i])] :
              i \in DOMAIN locals.future_dates}
    /\ session' = NoSession
    /\ step' = "returned"
    /\ response' =
          [NoResponse EXCEPT
              !.ok = TRUE,
              !.model_run_id = session.model_run.id,
              !.forecasts =
                  [i \in DOMAIN locals.future_dates |->
                      [date |-> locals.future_dates[i],
                       predicted_units |-> locals.future_predictions[i]]]]
    /\ UNCHANGED <<etlVars, costs, elasticityEstimates, priceRecommendations, request,
                   locals, calls>>

(* recommend_prices *)

\* variant: the sales baseline is looked up first
SalesCheckedFirst(product_id) ==
    IF \A f \in salesDaily : f.product_id # product_id
    THEN "No sales data found"
    ELSE IF \A p \in products : p.id # product_id
    THEN "Product not found"
    ELSE IF \A e \in elasticityEstimates : e.product_id # product_id
    THEN "No elasticity estimate found"
    ELSE NULL

\* lines 123-156: the product, the latest elasticity estimate, the latest fact
Precondition(product_id) ==
    IF \A p \in products : p.id # product_id
    THEN "Product not found"
    ELSE IF \A e \in elasticityEstimates : e.product_id # product_id
    THEN "No elasticity estimate found"
    ELSE IF \A f \in salesDaily : f.product_id # product_id
    THEN "No sales data found"
    ELSE NULL

\* pmin = baseline_price * 0.5 unless given (in halves)
EffectivePmin(pmin, baseline_price) ==
    IF pmin.given THEN pmin.v ELSE baseline_price

\* pmax = baseline_price * 1.5 unless given (in halves)
EffectivePmax(pmax, baseline_price) ==
    IF pmax.given THEN pmax.v ELSE 3 * baseline_price

\* variant: the bounds are not validated
BoundsUnchecked(pmin, pmax) == NULL

\* lines 167-171
BoundsError(pmin, pmax) ==
    IF pmin >= pmax THEN "pmin must be less than pmax"
    ELSE IF pmin <= 0 THEN "pmin must be positive"
    ELSE NULL

\* target_dates, or the next horizon days from tomorrow
TargetDates(req) ==
    IF req.target_dates.given THEN req.target_dates.v
    ELSE [i \in 1..req.horizon |-> Today + i]

\* forecasts.get(target_date, baseline_quantity)
ForecastedQuantity(dict, target_date, baseline_quantity) ==
    IF \E e \in dict : e[1] = target_date
    THEN (CHOOSE e \in dict : e[1] = target_date)[2]
    ELSE baseline_quantity

\* Prices, quantities and money inside the optimization are fractions
\* num / den with den > 0 (the code computes them in floating point).
Rat(n, d) == [num |-> n, den |-> d]

Times(a, b) == Rat(a.num * b.num, a.den * b.den)

Minus(a, b) == Rat(a.num * b.den - b.num * a.den, a.den * b.den)

Less(a, b) == a.num * b.den < b.num * a.den

\* grid points of a demand curve (num_points, 100 in the code)
NumPoints == 4

\* np.linspace(min_price, max_price, num_points)
Linspace(min_price, max_price) ==
    [i \in 1..NumPoints |->
        Rat((NumPoints - 1) * min_price + (i - 1) * (max_price - min_price),
            NumPoints - 1)]

\* (prices / baseline_price) ** elasticity, for the elasticities of the model.
\* A baseline price of 0 makes the ratio inf, and inf ** -2 is 0.
Power(price, baseline_price, elasticity) ==
    IF elasticity = 0 THEN Rat(1, 1)
    ELSE Rat(baseline_price * baseline_price * price.den * price.den,
             price.num * price.num)

\* calculate_demand_curve: D(p) = D0 * (p / P0)^b over the grid
calculate_demand_curve(baseline_price, baseline_quantity, elasticity, min_price, max_price) ==
    LET prices == Linspace(min_price, max_price)
    IN  [prices |-> prices,
         quantities |->
             [i \in 1..NumPoints |->
                 Times(Rat(baseline_quantity, 1),
                       Power(prices[i], baseline_price, elasticity))]]

\* variant: the last index of the largest value
ArgMaxLast(values) ==
    CHOOSE i \in DOMAIN values :
        /\ \A j \in DOMAIN values : ~Less(values[i], values[j])
        /\ \A j \in DOMAIN values : j > i => Less(values[j], values[i])

\* np.argmax: the first index of the largest value
ArgMax(values) ==
    CHOOSE i \in DOMAIN values :
        /\ \A j \in DOMAIN values : ~Less(values[i], values[j])
        /\ \A j \in DOMAIN values : j < i => Less(values[j], values[i])

\* optimize_price_objective(prices, quantities, objective, unit_cost): the
\* tuple it returns, or the error it raises
optimize_price_objective(prices, quantities, objective, unit_cost) ==
    LET revenues == [i \in DOMAIN prices |-> Times(prices[i], quantities[i])]
        profits ==
            [i \in DOMAIN prices |->
                Times(Minus(prices[i], Rat(unit_cost.v, 1)), quantities[i])]
    IN  IF objective = "revenue"
        THEN [error |-> NULL,
              optimal_price |-> prices[ArgMax(revenues)],
              optimal_quantity |-> quantities[ArgMax(revenues)],
              expected_revenue |-> revenues[ArgMax(revenues)],
              expected_profit |-> None]
        ELSE IF objective = "profit"
        THEN IF ~unit_cost.given
             THEN [error |-> "unit_cost required for profit optimization"]
             ELSE [error |-> NULL,
                   optimal_price |-> prices[ArgMax(profits)],
                   optimal_quantity |-> quantities[ArgMax(profits)],
                   expected_revenue |->
                       Times(prices[ArgMax(profits)], quantities[ArgMax(profits)]),
                   expected_profit |-> Some(profits[ArgMax(profits)])]
        ELSE [error |-> "objective must be 'revenue' or 'profit'"]

\* variant: order_by(Cost.date) without desc()
EarliestCosts(product_id) ==
    {c \in costs : /\ c.product_id = product_id
                   /\ \A x \in costs : x.product_id = product_id => c.date <= x.date}

\* the rows of costs with the largest date: order_by(Cost.date.desc()).limit(1)
\* returns one of them
LatestCosts(product_id) ==
    {c \in costs : /\ c.product_id = product_id
                   /\ \A x \in costs : x.product_id = product_id => x.date <= c.date}

\* lines 123-203: everything recommend_prices reads before it writes.  The
\* dict comprehension of line 203 iterates over scalars(), which yields the
\* target_date column alone: its `f.target_date` raises on the first row.
RecommendCheck ==
    /\ step = "query"
    /\ request.op = "recommend_prices"
    /\ LET product_id == request.product_id
           estimates == {e \in elasticityEstimates : e.product_id = product_id}
           elasticity_estimate ==
               CHOOSE e \in estimates :
                   \A x \in estimates : x.model_run_id <= e.model_run_id
           sales == {f \in salesDaily : f.product_id = product_id}
           latest_sales == CHOOSE f \in sales : \A g \in sales : g.date <= f.date
           pmin == EffectivePmin(request.pmin, latest_sales.price)
           pmax == EffectivePmax(request.pmax, latest_sales.price)
           target_dates == TargetDates(request)
           found == {f \in forecasts : /\ f.product_id = product_id
                                       /\ f.target_date \in Range(target_dates)}
           \* lines 173-187, in halves: the latest cost row, 0 without one,
           \* None unless the objective is 'profit'
           unit_costs ==
               IF request.objective # "profit" THEN {None}
               ELSE IF LatestCosts(product_id) = {} THEN {Some(0)}
               ELSE {Some(2 * c.unit_cost) : c \in LatestCosts(product_id)}
       IN  IF Precondition(product_id) # NULL
           THEN Raise(Precondition(product_id))
           ELSE IF BoundsError(pmin, pmax) # NULL
           THEN Raise(BoundsError(pmin, pmax))
           ELSE IF found # {}
           THEN Raise("AttributeError")
           ELSE /\ \E unit_cost \in unit_costs :
                     locals' =
                         [NoLocals EXCEPT
                             !.elasticity = elasticity_estimate.elasticity,
                             !.baseline_price = 2 * latest_sales.price,
                             !.baseline_quantity = latest_sales.units_sold,
                             !.pmin = pmin,
                             !.pmax = pmax,
                             !.unit_cost = unit_cost,
                             !.target_dates = target_dates,
                             !.forecasts = {}]
                /\ step' = "add_model_run"
                /\ UNCHANGED <<mlTables, session, response>>
    /\ UNCHANGED <<etlVars, costs, request, calls>>

\* variant: the flush is a commit
RecommendFlushCommits ==
    /\ step = "add_model_run"
    /\ request.op = "recommend_prices"
    /\ session' = [model_run |-> [NoRun EXCEPT !.id = FreshRunId,
                                               !.model_name = "price_optimization",
                                               !.horizon = request.horizon,
                                               !.target_dates = locals.target_dates],
                   rows |-> {}]
    /\ modelRuns' = modelRuns \cup {session'.model_run}
    /\ step' = "add_rows"
    /\ UNCHANGED <<etlVars, costs, elasticityEstimates, forecasts, priceRecommendations,
                   request, locals, response, calls>>

\* session.add(model_run); await session.flush()
RecommendFlush ==
    /\ step = "add_model_run"
    /\ request.op = "recommend_prices"
    /\ session' = [model_run |-> [NoRun EXCEPT !.id = FreshRunId,
                                               !.model_name = "price_optimization",
                                               !.horizon = request.horizon,
                                               !.target_dates = locals.target_dates],
                   rows |-> {}]
    /\ step' = "add_rows"
    /\ UNCHANGED <<etlVars, costs, mlTables, request, locals, response, calls>>

\* float(x) of a fraction that is None: expected_profit if not None else 0.0
OrZero(x) == IF x.given THEN x.v ELSE Rat(0, 1)

\* one pass of `for target_date in target_dates`: the demand curve, then
\* optimize_price_objective, which raises on an objective it does not know,
\* then session.add(recommendation)
RecommendDate ==
    /\ step = "add_rows"
    /\ request.op = "recommend_prices"
    /\ Len(locals.recommendations) < Len(locals.target_dates)
    /\ LET i == Len(locals.recommendations) + 1
           target_date == locals.target_dates[i]
           forecasted_quantity ==
               ForecastedQuantity(locals.forecasts, target_date,
                                  locals.baseline_quantity)
           curve ==
               calculate_demand_curve(locals.baseline_price, forecasted_quantity,
                                      locals.elasticity, locals.pmin, locals.pmax)
           optimal ==
               optimize_price_objective(curve.prices, curve.quantities,
                                        request.objective, locals.unit_cost)
       IN  IF optimal.error # NULL
           THEN Raise(optimal.error)
           ELSE /\ locals' =
                     [locals EXCEPT !.recommendations =
                         Append(@, [target_date |-> target_date,
                                    baseline_quantity |-> forecasted_quantity,
                                    suggested_price |-> optimal.optimal_price,
                                    expected_units |-> optimal.optimal_quantity,
                                    expected_revenue |-> optimal.expected_revenue,
                                    expected_profit |->
                                        OrZero(optimal.expected_profit)])]
                /\ session' =
                     [session EXCEPT !.rows =
                         @ \cup {[id |-> i,
                                  product_id |-> request.product_id,
                                  model_run_id |-> session.model_run.id,
                                  target_date |-> target_date,
                                  objective |-> request.objective,
                                  suggested_price |-> optimal.optimal_price,
                                  expected_units |-> optimal.optimal_quantity,
                                  expected_revenue |-> optimal.expected_revenue,
                                  expected_profit |->
                                      OrZero(optimal.expected_profit)]}]
                /\ UNCHANGED <<mlTables, step, response>>
    /\ UNCHANGED <<etlVars, costs, request, calls>>

\* await session.commit(); return {...}
RecommendCommit ==
    /\ step = "add_rows"
    /\ request.op = "recommend_prices"
    /\ Len(locals.recommendations) = Len(locals.target_dates)
    /\ modelRuns' = modelRuns \cup {session.model_run}
    /\ priceRecommendations' = priceRecommendations \cup session.rows
    /\ session' = NoSession
    /\ step' = "returned"
    /\ response' = [NoResponse EXCEPT !.ok = TRUE,
                                      !.model_run_id = session.model_run.id,
                                      !.recommendations = locals.recommendations]
    /\ UNCHANGED <<etlVars, costs, elasticityEstimates, forecasts, request, locals,
                   calls>>

-----------------------------------------------------------------------------
(* Analytical calls one after the other over a loaded fact table *)

\* Sales histories of product 1: n facts on the n days up to today; the `bad`
\* most recent ones have no units or no price; `flat` histories have one price
Profiles ==
    { [n |-> 0,  bad |-> 0, flat |-> FALSE],
      [n |-> 9,  bad |-> 0, flat |-> FALSE],
      [n |-> 10, bad |-> 0, flat |-> FALSE],
      [n |-> 10, bad |-> 5, flat |-> FALSE],
      [n |-> 10, bad |-> 6, flat |-> FALSE],
      [n |-> 10, bad |-> 0, flat |-> TRUE],
      [n |-> 11, bad |-> 0, flat |-> FALSE],
      [n |-> 32, bad |-> 0, flat |-> FALSE] }

History(profile) ==
    {[product_id |-> 1,
      date |-> Today - (i - 1),
      units_sold |-> IF i <= profile.bad
                     THEN (IF i % 2 = 1 THEN 1 ELSE 0)
                     ELSE 1 + (i % 2),
      price |-> IF i <= profile.bad
                THEN (IF i % 2 = 1 THEN 0 ELSE 2)
                ELSE IF profile.flat THEN 2 ELSE 2 + (i % 2),
      revenue |-> IF i <= profile.bad THEN 0
                  ELSE (1 + (i % 2)) * (IF profile.flat THEN 2 ELSE 2 + (i % 2))] :
        i \in 1..profile.n}

RequestPalette ==
    {EstimateRequest(1, 9, 10, 20), EstimateRequest(1, 8, 10, 20),
     EstimateRequest(2, 9, 10, 20)}
    \cup {ForecastRequest(1, h, m, 1) : h \in {0, MaxHorizon}, m \in {1, 5}}
    \cup {RecommendRequest(1, o, None, None, NoDates, h) :
              o \in {"revenue", "margin"}, h \in {0, MaxHorizon}}
    \cup {RecommendRequest(1, "profit", None, None, Some(<<5, 5>>), 0),
          RecommendRequest(2, "revenue", None, None, NoDates, 1)}

InitAnalytics ==
    /\ rawSales = <<>>
    /\ \E profile \in Profiles : salesDaily = History(profile)
    /\ products = {AutoProduct(1, 1)}
    /\ organizations = {1}
    /\ lastLoaded = [k \in Keys |-> NoFact]
    /\ kills = 0
    /\ Idle
    /\ NoAnalytics

NextAnalytics ==
    \/ \E req \in RequestPalette : Call(req)
    \/ EstimateFit
    \/ EstimateFlush
    \/ EstimateCommit
    \/ ForecastFit
    \/ ForecastFlush
    \/ ForecastCommit
    \/ RecommendCheck
    \/ RecommendFlush
    \/ RecommendDate
    \/ RecommendCommit
    \/ Crash
    \/ Finish

SpecAnalytics == InitAnalytics /\ [][NextAnalytics]_vars

-----------------------------------------------------------------------------
(* One call of estimate_elasticity with any thresholds over a loaded history *)

\* windows of 8 and 9 days; thresholds 0.1, 0.2 (the defaults), 0, 0.21, 0.5
EstimateRequests ==
    {EstimateRequest(1, w, v, r) :
        w \in {8, 9}, v \in {0, 10, 50}, r \in {0, 20, 21}}

InitEstimate ==
    /\ rawSales = <<>>
    /\ \E profile \in Profiles : salesDaily = History(profile)
    /\ products = {AutoProduct(1, 1)}
    /\ organizations = {1}
    /\ lastLoaded = [k \in Keys |-> NoFact]
    /\ kills = 0
    /\ Idle
    /\ modelRuns = {}
    /\ elasticityEstimates = {}
    /\ forecasts = {}
    /\ priceRecommendations = {}
    /\ costs = {}
    /\ request \in EstimateRequests
    /\ step = "query"
    /\ session = NoSession
    /\ locals = NoLocals
    /\ response = NoResponse
    /\ calls = 1

NextEstimate ==
    \/ EstimateFit
    \/ EstimateFlush
    \/ EstimateCommit
    \/ Crash

SpecEstimate == InitEstimate /\ [][NextEstimate]_vars

-----------------------------------------------------------------------------
(* One call of run_forecast with any min_data_days and test_days over a      *)
(* loaded history                                                            *)

\* histories of 28, 32 and 34 facts: 0, 4 and 6 rows have a 28-row lag
ForecastProfiles ==
    { [n |-> 28, bad |-> 0, flat |-> FALSE],
      [n |-> 32, bad |-> 0, flat |-> FALSE],
      [n |-> 34, bad |-> 0, flat |-> FALSE] }

ForecastRequests ==
    {ForecastRequest(1, h, m, t) :
        h \in {0, 1}, m \in {0, 4, 5}, t \in {0, 1, 3, 4, 5, 6, 7, 8, 14}}

InitForecast ==
    /\ rawSales = <<>>
    /\ \E profile \in ForecastProfiles : salesDaily = History(profile)
    /\ products = {AutoProduct(1, 1)}
    /\ organizations = {1}
    /\ lastLoaded = [k \in Keys |-> NoFact]
    /\ kills = 0
    /\ Idle
    /\ modelRuns = {}
    /\ elasticityEstimates = {}
    /\ forecasts = {}
    /\ priceRecommendations = {}
    /\ costs = {}
    /\ request \in ForecastRequests
    /\ step = "query"
    /\ session = NoSession
    /\ locals = NoLocals
    /\ response = NoResponse
    /\ calls = 1

NextForecast ==
    \/ ForecastFit
    \/ ForecastFlush
    \/ ForecastCommit
    \/ Crash

SpecForecast == InitForecast /\ [][NextForecast]_vars

-----------------------------------------------------------------------------
(* One call of recommend_prices with any arguments over any store *)

RecommendRequests ==
    {RecommendRequest(1, o, pmin, pmax, dates, h) :
        o \in {"revenue", "profit", "margin"},
        pmin \in {None, Some(0), Some(3)},
        pmax \in {None, Some(3), Some(8)},
        dates \in {NoDates, Some(<<>>), Some(<<1, 1>>), Some(<<4, 1>>)},
        h \in 0..MaxHorizon}

\* the latest fact has price 2 and 2 units; price 0; price 3 and 2 units
PriceProfiles ==
    { [n |-> 1, bad |-> 0, flat |-> TRUE],
      [n |-> 1, bad |-> 1, flat |-> FALSE],
      [n |-> 2, bad |-> 0, flat |-> FALSE] }

\* a committed estimate_elasticity run of product 1
SeedEstimateRun ==
    [NoRun EXCEPT !.id = 1, !.model_name = "log_log_ols", !.confidence = "high"]

\* a committed run_forecast run of product 1 for tomorrow
SeedForecastRun ==
    [NoRun EXCEPT !.id = 2, !.model_name = "lightgbm_forecast", !.horizon = 1]

SeedForecast ==
    [id |-> 1, product_id |-> 1, model_run_id |-> 2, target_date |-> Today + 1,
     predicted_units |-> 3]

\* cost rows of product 1: an older one, then two of the latest date
SeedCosts ==
    {[id |-> 1, product_id |-> 1, date |-> Today - 1, unit_cost |-> 3],
     [id |-> 2, product_id |-> 1, date |-> Today, unit_cost |-> 1],
     [id |-> 3, product_id |-> 1, date |-> Today, unit_cost |-> 2]}

\* The store holds whatever earlier calls, loads and its operators left in it:
\* any content the foreign keys allow.
InitPrice ==
    /\ rawSales = <<>>
    /\ lastLoaded = [k \in Keys |-> NoFact]
    /\ kills = 0
    /\ Idle
    /\ \/ /\ products = {} /\ organizations = {}
          /\ salesDaily = {}
          /\ modelRuns = {} /\ elasticityEstimates = {} /\ forecasts = {}
       \/ /\ products = {AutoProduct(1, 1)} /\ organizations = {1}
          /\ salesDaily \in {{}} \cup {History(profile) : profile \in PriceProfiles}
          /\ \E b \in Elasticities, estimated, forecasted \in BOOLEAN :
                /\ elasticityEstimates =
                      IF estimated
                      THEN {[product_id |-> 1, model_run_id |-> 1, elasticity |-> b]}
                      ELSE {}
                /\ forecasts = IF forecasted THEN {SeedForecast} ELSE {}
                /\ modelRuns =
                      (IF estimated THEN {SeedEstimateRun} ELSE {})
                          \cup (IF forecasted THEN {SeedForecastRun} ELSE {})
    /\ priceRecommendations = {}
    /\ costs \in {{c \in SeedCosts : c.product_id \in {p.id : p \in products}
                                     /\ c.id <= n} : n \in 0..3}
    /\ request \in RecommendRequests
    /\ step = "query"
    /\ session = NoSession
    /\ locals = NoLocals
    /\ response = NoResponse
    /\ calls = 1

NextPrice ==
    \/ RecommendCheck
    \/ RecommendFlush
    \/ RecommendDate
    \/ RecommendCommit
    \/ Crash

SpecPrice == InitPrice /\ [][NextPrice]_vars

-----------------------------------------------------------------------------
(* optimize_price_objective applied to any curve over a grid of prices *)

\* quantities of a grid point
Quantities == {0, 1, 2}

\* unit costs, in the unit of the prices; None is the default of the argument
UnitCosts == {None, Some(0), Some(2), Some(9)}

InitOptimize ==
    /\ rawSales = <<>>
    /\ salesDaily = {}
    /\ products = {}
    /\ organizations = {}
    /\ lastLoaded = [k \in Keys |-> NoFact]
    /\ kills = 0
    /\ Idle
    /\ modelRuns = {}
    /\ elasticityEstimates = {}
    /\ forecasts = {}
    /\ priceRecommendations = {}
    /\ costs = {}
    /\ \E objective \in {"revenue", "profit", "margin"} :
          request = [NoRequest EXCEPT !.op = "optimize_price_objective",
                                      !.objective = objective]
    /\ \E bounds \in {<<1, 4>>, <<2, 8>>},
          quantities \in [1..NumPoints -> Quantities],
          unit_cost \in UnitCosts :
          locals = [NoLocals EXCEPT
                       !.prices = Linspace(bounds[1], bounds[2]),
                       !.quantities =
                           [i \in 1..NumPoints |-> Rat(quantities[i], 1)],
                       !.unit_cost = unit_cost]
    /\ step = "optimize"
    /\ session = NoSession
    /\ response = NoResponse
    /\ calls = 1

\* the call of optimize_price_objective: its tuple, or its exception
OptimizePriceObjective ==
    /\ step = "optimize"
    /\ LET optimal ==
               optimize_price_objective(locals.prices, locals.quantities,
                                        request.objective, locals.unit_cost)
       IN  IF optimal.error # NULL
           THEN Raise(optimal.error)
           ELSE /\ locals' = [locals EXCEPT !.optimal = optimal]
                /\ step' = "optimized"
                /\ UNCHANGED <<mlTables, session, response>>
    /\ UNCHANGED <<etlVars, costs, request, calls>>

NextOptimize == OptimizePriceObjective

SpecOptimize == InitOptimize /\ [][NextOptimize]_vars

-----------------------------------------------------------------------------
(* POST /run_etl: the endpoint and its background task *)

InitEndpoint ==
    /\ \E n \in 0..PendingAtStart :
          rawSales \in [1..n -> {Pending(p) : p \in Palette}]
    /\ salesDaily = {}
    /\ products = {}
    /\ organizations = {}
    /\ lastLoaded = [k \in Keys |-> NoFact]
    /\ kills = 0
    /\ Idle
    /\ NoAnalytics

\* run_etl_endpoint: background_tasks.add_task(lambda: asyncio.run(_runner()))
\* and the answer; the task runs after the response was sent
RunEtlEndpoint ==
    /\ step = "idle"
    /\ request' = [NoRequest EXCEPT !.op = "run_etl"]
    /\ response' = [NoResponse EXCEPT !.ok = TRUE,
                                      !.status = "ETL started in background"]
    /\ step' = "background"
    /\ UNCHANGED <<etlVars, costs, mlTables, session, locals, calls>>

\* The background task runs the outer _runner. DATABASE_URL is the string
\* read from the environment (core/db.py), which has no attribute `set`: the
\* first statement raises AttributeError. The statements after it would
\* create the engine and define the inner coroutine, which nothing awaits.
\* Either way no worker enters run_etl: pc is left alone.
Runner ==
    /\ step = "background"
    /\ step' = "AttributeError"
    /\ UNCHANGED <<etlVars, costs, mlTables, request, session, locals, response,
                   calls>>

NextEndpoint ==
    \/ RunEtlEndpoint
    \/ Runner

\* the server answers the request and runs the task it added
SpecEndpoint == InitEndpoint /\ [][NextEndpoint]_vars /\ WF_vars(NextEndpoint)

-----------------------------------------------------------------------------
(* Properties *)

Terminal == {"processed", "failed"}

KeyOf(i) ==
    <<Normalize(rawSales[i].raw_json).product_id, Normalize(rawSales[i].raw_json).date>>

(* C1: Two run_etl invocations running concurrently never hold the same      *)
(* staging record: the records a worker has claimed in its open batch are    *)
(* exactly the records it has locked, they are pending, and no record is     *)
(* locked by two workers, so each record is transformed and loaded by at     *)
(* most one open batch.                                                      *)
C1_ExclusiveClaim ==
    \A w \in Workers :
        /\ pc[w] \in InBatch =>
              /\ Range(raw_rows[w]) = rowLocks[w]
              /\ \A i \in rowLocks[w] : rawSales[i].status = "pending"
        /\ \A v \in Workers \ {w} : rowLocks[w] \cap rowLocks[v] = {}

\* both workers are inside a batch at once, each with records of its own
C1_Witness ==
    /\ pc["w1"] \in InBatch /\ pc["w2"] \in InBatch
    /\ rowLocks["w1"] # {} /\ rowLocks["w2"] # {}

(* C2: The status of a staging record only ever goes from pending to         *)
(* processed or from pending to failed: no step of any worker changes a      *)
(* record whose committed status is processed or failed.                     *)
C2_OneShotStatus ==
    [][\A i \in RawIds :
          /\ rawSales[i].status \in Terminal => rawSales'[i] = rawSales[i]
          /\ rawSales'[i].status \in {rawSales[i].status} \cup Terminal]_vars

\* a later batch commits while another record is already terminal
C2_Witness ==
    \E w \in Workers :
        /\ pc[w] = "claim"
        /\ raw_rows[w] # <<>>
        /\ \E i \in RawIds \ Range(raw_rows[w]) : rawSales[i].status \in Terminal
        /\ \A i \in Range(raw_rows[w]) : rawSales[i].status \in Terminal

(* C3: The fact table holds at most one row per (product, date), and that    *)
(* row carries the units, price and revenue of the record loaded last for    *)
(* the key (last committed batch; within a batch, last in claim order).      *)
C3_UpsertLaw ==
    \A k \in Keys :
        LET rows == {f \in salesDaily : <<f.product_id, f.date>> = k}
        IN  IF lastLoaded[k] = NoFact THEN rows = {} ELSE rows = {lastLoaded[k]}

\* two processed records of one key with different values, one fact row
C3_Witness ==
    \E i, j \in RawIds :
        /\ i # j
        /\ rawSales[i].status = "processed" /\ rawSales[j].status = "processed"
        /\ KeyOf(i) = KeyOf(j)
        /\ FactOf(Normalize(rawSales[i].raw_json))
              # FactOf(Normalize(rawSales[j].raw_json))
        /\ Cardinality(salesDaily) = 1

(* C4: A failure while processing one record marks only that record failed;  *)
(* every record claimed in the same batch reaches its terminal status and    *)
(* the batch commits: unless the worker process is terminated, once run_etl  *)
(* is past a batch (back at the claim, returned, or left) every record of    *)
(* that batch is processed or failed.                                        *)
C4_FailureContained ==
    \A w \in Workers :
        pc[w] \in {"claim", "done", "aborted"} =>
            \A i \in Range(raw_rows[w]) : rawSales[i].status \in Terminal

(* C5: A batch is atomic.  While a batch is open none of its status updates, *)
(* facts or products is committed; the step that terminates a worker inside  *)
(* a batch changes no table and leaves every record of the batch pending and *)
(* unlocked; and the records of a terminated batch are eventually processed  *)
(* or failed by a later invocation of run_etl.                               *)
C5_BatchAtomic ==
    /\ [](\A w \in Workers :
            pc[w] \in InBatch =>
                /\ \A i \in Range(raw_rows[w]) : rawSales[i].status = "pending"
                /\ txProducts[w] \cap products = {}
                /\ txFacts[w].new \cap salesDaily = {})
    /\ [][\A w \in Workers :
            (pc[w] \in InBatch /\ pc'[w] = "terminated") =>
                /\ dbVars' = dbVars
                /\ txRaw'[w] = {} /\ txFacts'[w] = NoTx
                /\ txProducts'[w] = {} /\ txOrgs'[w] = {}
                /\ \A i \in Range(raw_rows[w]) :
                      /\ rawSales'[i].status = "pending"
                      /\ \A v \in Workers : i \notin rowLocks'[v]]_vars
    /\ \A w \in Workers : \A i \in 1..MaxRecords :
          (pc[w] = "terminated" /\ i \in Range(raw_rows[w]))
              ~> (i \in RawIds /\ rawSales[i].status \in Terminal)

\* a worker was terminated after it had marked the first record of a batch of
\* two, and both records are pending
C5_Witness ==
    \E w \in Workers :
        /\ pc[w] = "terminated"
        /\ Len(raw_rows[w]) = 2 /\ idx[w] = 2
        /\ \A i \in Range(raw_rows[w]) : rawSales[i].status = "pending"

\* the resolved units or the resolved price is a negative number
Negative(data) ==
    \/ ResolveUnits(data).k = "num" /\ ResolveUnits(data).n < 0
    \/ ResolvePrice(data).k = "num" /\ ResolvePrice(data).n < 0

(* C6: A record whose resolved units_sold or resolved price is negative is   *)
(* never processed; when run_etl has returned it is failed with a non-null   *)
(* error detail, and it has written no fact row and changed none (neither in *)
(* the open transaction nor in the committed table).                         *)
C6_NegativeRejected ==
    Negative(TheRow.raw_json) =>
        /\ TheRow.status \in {"pending", "failed"}
        /\ pc["w1"] = "done" =>
              TheRow.status = "failed" /\ TheRow.error_message # NULL
        /\ salesDaily \in {{}, {PriorFact}}
        /\ FactView("w1") = salesDaily

\* a negative record of the key of an existing fact has failed, the fact is unchanged
C6_Witness ==
    /\ Negative(TheRow.raw_json)
    /\ pc["w1"] = "done"
    /\ TheRow.status = "failed"
    /\ ResolveProductId(TheRow.raw_json) = Uuid(1)
    /\ TheRow.raw_json.date = Iso(1)
    /\ salesDaily = {PriorFact}

\* non-negative units and price, a UUID product id, an ISO date
ValidFields(data) ==
    /\ ResolveUnits(data).k = "num" /\ ResolveUnits(data).n >= 0
    /\ ResolvePrice(data).k = "num" /\ ResolvePrice(data).n >= 0
    /\ ResolveProductId(data).k = "uuid"
    /\ data.date.k = "iso"

\* the record is processed and its fact is the only row of its key
LoadedAsGiven(data) ==
    /\ TheRow.status = "processed"
    /\ TheRow.error_message = NULL
    /\ \E f \in salesDaily :
          /\ f.product_id = ResolveProductId(data).n
          /\ f.date = data.date.n
          /\ f.units_sold = ResolveUnits(data).n
          /\ f.price = ResolvePrice(data).n
          /\ ~Has(data, "revenue") => f.revenue = f.units_sold * f.price
          /\ \A g \in salesDaily :
                (g.product_id = f.product_id /\ g.date = f.date) => g = f

(* C7 as stated: when run_etl has returned, every record with units >= 0,    *)
(* price >= 0, a UUID product id and an ISO date is processed, its error is  *)
(* cleared and its fact has its units and price, with revenue = units x      *)
(* price when the record supplies no revenue.                                *)
C7_ValidProcessed ==
    (pc["w1"] = "done" /\ ValidFields(TheRow.raw_json))
        => LoadedAsGiven(TheRow.raw_json)

(* C7 amended: the same, for records whose revenue is missing, null, empty,  *)
(* zero or a number.                                                         *)
C7_ValidProcessedAmended ==
    (/\ pc["w1"] = "done"
     /\ ValidFields(TheRow.raw_json)
     /\ TheRow.raw_json.revenue.k \in {"absent", "null", "empty", "num"})
        => LoadedAsGiven(TheRow.raw_json)

\* a valid record without revenue is processed, its revenue is units x price > 0
C7_Witness ==
    /\ pc["w1"] = "done"
    /\ ValidFields(TheRow.raw_json)
    /\ ~Has(TheRow.raw_json, "revenue")
    /\ TheRow.status = "processed"
    /\ \E f \in salesDaily : f.revenue = f.units_sold * f.price /\ f.revenue > 0

(* C8: run_etl invoked when no staging record is pending writes nothing: its *)
(* claim returns no rows, it returns, and the staging, fact, product and     *)
(* organization tables are unchanged.                                        *)
C8_IdleRunWritesNothing ==
    [][\A w \in Workers :
          (/\ pc[w] = "claim"
           /\ \A i \in RawIds : rawSales[i].status # "pending"
           /\ pc'[w] # "claim")
            => /\ pc'[w] = "done"
               /\ dbVars' = dbVars
               /\ txRaw'[w] = {} /\ txFacts'[w] = NoTx
               /\ txProducts'[w] = {} /\ txOrgs'[w] = {}
               /\ rowLocks'[w] = {}]_vars

\* a run has returned with nothing pending, records processed and facts loaded
C8_Witness ==
    \E w \in Workers :
        /\ pc[w] = "done"
        /\ Len(rawSales) = MaxRecords
        /\ \A i \in RawIds : rawSales[i].status \in Terminal
        /\ salesDaily # {}

(* C9: With one worker and no concurrent upload run_etl terminates, every    *)
(* batch holds at most batch_size records, and when it has returned no       *)
(* staging record is pending.                                                *)
C9_SingleRunCompletes ==
    /\ <>(pc["w1"] = "done")
    /\ [](Len(raw_rows["w1"]) <= BatchSize)
    /\ [](pc["w1"] = "done" =>
            \A i \in RawIds : rawSales[i].status \in Terminal)

\* the run has returned after more records than one batch holds
C9_Witness ==
    /\ pc["w1"] = "done"
    /\ Len(rawSales) > BatchSize
    /\ \A i \in RawIds : rawSales[i].status \in Terminal

(* C10: Concurrent invocations whose batches reference the same missing      *)
(* product both run to completion: no invocation is left by an exception,    *)
(* and the product exists at most once.                                      *)
C10_ConcurrentProductSafe ==
    /\ \A w \in Workers : raised[w] = NULL
    /\ \A p, q \in products : p.id = q.id => p = q

\* keys of the committed fact rows
FactKeys == {<<f.product_id, f.date>> : f \in salesDaily}

\* staging records with the committed status
WithStatus(status) == {i \in RawIds : rawSales[i].status = status}

(* C11: Starting from an empty fact table with one worker, the keys of the    *)
(* committed fact rows are exactly the keys of the processed records, there  *)
(* is one fact row per key, every fact row carries the values of a processed *)
(* record, and when run_etl has returned every record is processed or        *)
(* failed: failed records contributed no row.                                *)
C11_FactsMatchProcessed ==
    /\ FactKeys = {KeyOf(i) : i \in WithStatus("processed")}
    /\ Cardinality(salesDaily) = Cardinality(FactKeys)
    /\ \A f \in salesDaily :
          \E i \in WithStatus("processed") :
              f = FactOf(Normalize(rawSales[i].raw_json))
    /\ pc["w1"] = "done" =>
          RawIds = WithStatus("processed") \cup WithStatus("failed")

\* three records, one with negative units: 2 processed, 1 failed, 2 fact rows
C11_Witness ==
    /\ pc["w1"] = "done"
    /\ Len(rawSales) = 3
    /\ Cardinality(WithStatus("processed")) = 2
    /\ Cardinality(WithStatus("failed")) = 1
    /\ \E i \in WithStatus("failed") : Negative(rawSales[i].raw_json)
    /\ Cardinality(salesDaily) = 2

\* the facts of the product the analytical call is about
FactsOfProduct == {f \in salesDaily : f.product_id = request.product_id}

\* the facts dated inside [today - window_days, today]
WindowFacts ==
    {f \in FactsOfProduct :
        Today - request.window_days <= f.date /\ f.date <= Today}

\* the call fails here and now with one of the errors, and writes nothing
FailsWith(errors) ==
    /\ step' = "failed"
    /\ response'.error \in errors
    /\ mlTables' = mlTables
    /\ session' = NoSession

(* C12: A call of estimate_elasticity for a product with fewer than 10 facts *)
(* inside [today - window_days, today], or with fewer than 5 of them having  *)
(* units > 0 and price > 0, fails at its first step with an insufficient-    *)
(* data error and commits no ModelRun and no ElasticityEstimate; 10 facts in *)
(* the window pass the first of the two checks.                              *)
C12_InsufficientData ==
    [][(step = "query" /\ request.op = "estimate_elasticity") =>
          LET valid == {f \in WindowFacts : f.units_sold > 0 /\ f.price > 0}
          IN  /\ Cardinality(WindowFacts) < 10 => FailsWith({"Insufficient data"})
              /\ Cardinality(valid) < 5 =>
                    FailsWith({"Insufficient data",
                               "Insufficient valid data points after cleaning"})
              /\ Cardinality(WindowFacts) >= 10 =>
                    response'.error # "Insufficient data"]_vars

\* the product has 10 facts, 9 of them in the window: the call has failed
C12_Witness ==
    /\ request.op = "estimate_elasticity"
    /\ step = "failed"
    /\ response.error = "Insufficient data"
    /\ Cardinality(FactsOfProduct) = 10
    /\ Cardinality(WindowFacts) = 9
    /\ modelRuns = {} /\ elasticityEstimates = {}

\* the child rows of a committed model run
ChildrenOf(table, m) == {r \in table : r.model_run_id = m.id}

(* C13: In every committed state a ModelRun of estimate_elasticity has       *)
(* exactly one ElasticityEstimate, one of run_forecast has exactly horizon   *)
(* Forecast rows, one per day after the last fact, one of recommend_prices   *)
(* has exactly one PriceRecommendation per target date (the next horizon     *)
(* days from tomorrow when no dates are given); every child row belongs to a *)
(* committed ModelRun; and a step that fails a call changes no table and     *)
(* leaves nothing in its session.                                            *)
C13_AllOrNothing ==
    /\ [](\A m \in modelRuns :
            /\ m.model_name = "log_log_ols" =>
                  /\ Cardinality(ChildrenOf(elasticityEstimates, m)) = 1
                  /\ ChildrenOf(forecasts, m) = {}
                  /\ ChildrenOf(priceRecommendations, m) = {}
            /\ m.model_name = "lightgbm_forecast" =>
                  /\ Cardinality(ChildrenOf(forecasts, m)) = m.horizon
                  /\ LET last == Max({f.date : f \in salesDaily})
                     IN  {r.target_date : r \in ChildrenOf(forecasts, m)}
                            = (last + 1)..(last + m.horizon)
                  /\ ChildrenOf(elasticityEstimates, m) = {}
                  /\ ChildrenOf(priceRecommendations, m) = {}
            /\ m.model_name = "price_optimization" =>
                  /\ Cardinality(ChildrenOf(priceRecommendations, m))
                        = Len(m.target_dates)
                  /\ \A i \in DOMAIN m.target_dates :
                        \E r \in ChildrenOf(priceRecommendations, m) :
                            r.id = i /\ r.target_date = m.target_dates[i]
                  /\ ChildrenOf(elasticityEstimates, m) = {}
                  /\ ChildrenOf(forecasts, m) = {})
    /\ [](\A r \in elasticityEstimates \cup forecasts \cup priceRecommendations :
            \E m \in modelRuns : m.id = r.model_run_id)
    /\ []((step = "returned" /\ request.op = "recommend_prices"
             /\ ~request.target_dates.given) =>
            \E m \in modelRuns :
                /\ m.id = response.model_run_id
                /\ m.target_dates = [i \in 1..request.horizon |-> Today + i])
    /\ [][step' = "failed" => (mlTables' = mlTables /\ session' = NoSession)]_vars

\* a run of each of the three services is committed, with 1, 2 and 2 children
C13_Witness ==
    /\ {m.model_name : m \in modelRuns}
          = {"log_log_ols", "lightgbm_forecast", "price_optimization"}
    /\ Cardinality(elasticityEstimates) = 1
    /\ Cardinality(forecasts) = 2
    /\ Cardinality(priceRecommendations) = 2

(* C14: recommend_prices fails at its first step, writing nothing, with      *)
(* "Product not found" when the product does not exist, with "No elasticity  *)
(* estimate found" when the product exists and has no estimate (whether or   *)
(* not it has facts), and with "No sales data found" when the product and an *)
(* estimate exist and the product has no fact.                               *)
C14_Preconditions ==
    [][(step = "query" /\ request.op = "recommend_prices") =>
          LET exists == \E p \in products : p.id = request.product_id
              estimated ==
                  \E e \in elasticityEstimates : e.product_id = request.product_id
          IN  /\ ~exists => FailsWith({"Product not found"})
              /\ (exists /\ ~estimated) =>
                    FailsWith({"No elasticity estimate found"})
              /\ (exists /\ estimated /\ FactsOfProduct = {}) =>
                    FailsWith({"No sales data found"})]_vars

\* the product exists with neither an estimate nor a fact: the estimate is
\* the one reported missing
C14_Witness ==
    /\ request.op = "recommend_prices"
    /\ step = "failed"
    /\ response.error = "No elasticity estimate found"
    /\ \E p \in products : p.id = request.product_id
    /\ FactsOfProduct = {}
    /\ modelRuns = {} /\ priceRecommendations = {}

(* C15: A call of recommend_prices whose objective is neither 'revenue' nor  *)
(* 'profit' never has a ModelRun added to its session, flushed or committed, *)
(* and never returns.                                                        *)
C15_ObjectiveValidatedFirst ==
    (request.op = "recommend_prices"
       /\ request.objective \notin {"revenue", "profit"}) =>
        /\ session = NoSession
        /\ step # "returned"
        /\ \A m \in modelRuns : m.model_name # "price_optimization"

\* the price of the most recent fact of the product
BaselinePrice ==
    (CHOOSE f \in FactsOfProduct : \A g \in FactsOfProduct : g.date <= f.date).price

(* C16: Once product, estimate and facts are there, recommend_prices takes   *)
(* 0.5 x the baseline price for a pmin not given and 1.5 x the baseline      *)
(* price for a pmax not given (in halves: 1 x and 3 x), and unless           *)
(* 0 < pmin < pmax it fails at its first step with a bounds error and writes *)
(* nothing; with these bounds it goes on with exactly them.                  *)
C16_PriceBounds ==
    [][(/\ step = "query" /\ request.op = "recommend_prices"
        /\ \E p \in products : p.id = request.product_id
        /\ \E e \in elasticityEstimates : e.product_id = request.product_id
        /\ FactsOfProduct # {}) =>
          LET pmin == IF request.pmin.given THEN request.pmin.v
                      ELSE BaselinePrice
              pmax == IF request.pmax.given THEN request.pmax.v
                      ELSE 3 * BaselinePrice
          IN  /\ ~(0 < pmin /\ pmin < pmax) =>
                    FailsWith({"pmin must be less than pmax",
                               "pmin must be positive"})
              /\ step' = "add_model_run" =>
                    locals'.pmin = pmin /\ locals'.pmax = pmax]_vars

\* a baseline price of 0 with default bounds: the call has failed
C16_Witness ==
    /\ request.op = "recommend_prices"
    /\ ~request.pmin.given /\ ~request.pmax.given
    /\ step = "failed"
    /\ response.error = "pmin must be less than pmax"
    /\ FactsOfProduct # {}
    /\ BaselinePrice = 0
    /\ priceRecommendations = {}

(* C17: A call of recommend_prices that passed its checks returns one        *)
(* recommendation per target date, computed from the predicted units of a    *)
(* Forecast row of the product and date when there is one and from the       *)
(* baseline quantity when there is none: it never fails on reading the       *)
(* forecasts.                                                                *)
C17_ForecastOrBaseline ==
    request.op = "recommend_prices" =>
        /\ step = "failed" => response.error # "AttributeError"
        /\ step = "returned" =>
              /\ Len(response.recommendations) = Len(locals.target_dates)
              /\ \A i \in DOMAIN response.recommendations :
                    LET rec == response.recommendations[i]
                        rows == {f \in forecasts :
                                    /\ f.product_id = request.product_id
                                    /\ f.target_date = rec.target_date}
                    IN  /\ rec.target_date = locals.target_dates[i]
                        /\ IF rows = {}
                           THEN rec.baseline_quantity = locals.baseline_quantity
                           ELSE \E f \in rows :
                                   rec.baseline_quantity = f.predicted_units

(* C18: Every predicted-units value of run_forecast is >= 0, in the Forecast *)
(* rows and in the forecasts list it returns, and the value returned for a   *)
(* date is the value persisted for the date.                                 *)
C18_NonNegativeForecasts ==
    /\ \A f \in forecasts : f.predicted_units >= 0
    /\ (request.op = "run_forecast" /\ step = "returned") =>
          \A i \in DOMAIN response.forecasts :
              /\ response.forecasts[i].predicted_units >= 0
              /\ \E f \in forecasts :
                    /\ f.model_run_id = response.model_run_id
                    /\ f.target_date = response.forecasts[i].date
                    /\ f.predicted_units = response.forecasts[i].predicted_units

\* the fact row of the key of SpecRow's record
TheFacts == {f \in salesDaily : <<f.product_id, f.date>> = KeyOf(Len(rawSales))}

(* C19: When the processed record supplies a numeric revenue (0 included),   *)
(* the loaded fact's revenue is the supplied value; when the revenue key is  *)
(* missing it is units x price.                                              *)
C19_SuppliedRevenueKept ==
    (pc["w1"] = "done" /\ TheRow.status = "processed") =>
        \A f \in TheFacts :
            /\ TheRow.raw_json.revenue.k = "num" =>
                  f.revenue = TheRow.raw_json.revenue.n
            /\ ~Has(TheRow.raw_json, "revenue") =>
                  f.revenue = f.units_sold * f.price

\* the value the claim gives a field: the primary key's when present, else the
\* alias key's when present, else the default
ByPresence(data, primary, alias, default) ==
    IF data[primary].k # "absent" THEN data[primary]
    ELSE IF data[alias].k # "absent" THEN data[alias]
    ELSE default

(* C20: When run_etl has returned, a processed record's fact carries for     *)
(* product id, units and price the primary key's value whenever the primary  *)
(* key is present, the alias's only when the primary is absent and the       *)
(* default 0 only when both are absent; a record whose present primary key   *)
(* holds null, an empty string or unusable text is failed even when the      *)
(* alias holds a valid value.                                                *)
C20_AliasResolution ==
    pc["w1"] = "done" =>
        LET data == TheRow.raw_json
            pid == ByPresence(data, "product_id", "productID", Null)
            us  == ByPresence(data, "units_sold", "quantity", Num(0))
            pr  == ByPresence(data, "price", "unit_price", Num(0))
        IN  /\ TheRow.status = "processed" =>
                /\ pid.k = "uuid" /\ us.k = "num" /\ pr.k = "num"
                /\ TheFacts # {}
                /\ \A f \in TheFacts :
                      /\ f.product_id = pid.n
                      /\ f.units_sold = us.n
                      /\ f.price = pr.n
            /\ (pid.k # "uuid" \/ us.k # "num" \/ pr.k # "num") =>
                  TheRow.status = "failed"

\* units_sold = 0 with quantity = 1 and price = 0 with unit_price = 2: the
\* fact carries the zeros of the primary keys
C20_Witness ==
    /\ pc["w1"] = "done"
    /\ TheRow.status = "processed"
    /\ TheRow.raw_json.units_sold = Num(0) /\ TheRow.raw_json.quantity = Num(1)
    /\ TheRow.raw_json.price = Num(0) /\ TheRow.raw_json.unit_price = Num(2)
    /\ TheRow.raw_json.product_id = Uuid(1) /\ TheRow.raw_json.productID = Uuid(2)
    /\ \E f \in TheFacts : f.units_sold = 0 /\ f.price = 0 /\ f.product_id = 1

C22_CreationFailureFailsRecord ==
    \A w \in Workers :
        raised[w] = "PendingRollbackError" =>
            rawSales[CurRaw(w)].status = "failed"

\* POST etl/status: the counts of pending, processed and failed records
etl_status ==
    [pending |-> Cardinality(WithStatus("pending")),
     processed |-> Cardinality(WithStatus("processed")),
     failed |-> Cardinality(WithStatus("failed"))]

C24_StagingFrame ==
    [][/\ Len(rawSales') >= Len(rawSales)
       /\ \A i \in RawIds :
             /\ rawSales'[i].raw_json = rawSales[i].raw_json
             /\ rawSales'[i].source = rawSales[i].source
             /\ rawSales'[i].uploaded_at = rawSales[i].uploaded_at
             /\ rawSales'[i] # rawSales[i] =>
                   \E w \in Workers :
                       /\ pc[w] = "commit"
                       /\ i \in Range(raw_rows[w])
                       /\ i \in rowLocks[w]
       /\ Len(rawSales') > Len(rawSales) =>
             /\ Len(rawSales') = Len(rawSales) + 1
             /\ rawSales'[Len(rawSales')].status = "pending"
             /\ rawSales'[Len(rawSales')].error_message = NULL
             /\ \A i \in RawIds : rawSales'[i] = rawSales[i]]_vars

\* a record was uploaded after the commit that processed the first one: the
\* first keeps its payload, the new one is pending
C24_Witness ==
    /\ Len(rawSales) = 2
    /\ rawSales[1].status = "processed"
    /\ rawSales[1].raw_json \in Palette
    /\ rawSales[2].status = "pending"
    /\ \A w \in Workers : pc[w] \in {"done", "claim"} /\ rowLocks[w] = {}
    /\ \E w \in Workers : pc[w] = "done"

\* the label the two checks give, for the rows of the window and the R2 of the fit
ExpectedConfidence ==
    IF locals.r2 < request.min_r2_threshold THEN "low_r2"
    ELSE IF PriceCvBelow(WindowFacts, request.min_price_variance)
         THEN "low_price_variance"
    ELSE "high"

(* C25: Once estimate_elasticity has fitted the regression its confidence    *)
(* label is 'low_r2' when R2 < min_r2_threshold, otherwise                   *)
(* 'low_price_variance' when the price CV of the window is below             *)
(* min_price_variance, otherwise 'high'; the label returned and the label    *)
(* stored with the ModelRun are that label; and the call fails only at its   *)
(* first step, on too few rows or a singular regression, whatever the label  *)
(* and the sign of the elasticity (or when it is cut off after the flush).   *)
C25_ConfidenceLabel ==
    /\ []((request.op = "estimate_elasticity"
             /\ step \in {"add_model_run", "add_rows", "returned"}) =>
            /\ locals.confidence = ExpectedConfidence
            /\ session.model_run # NoRun =>
                  session.model_run.confidence = ExpectedConfidence
            /\ step = "returned" =>
                  /\ response.confidence = ExpectedConfidence
                  /\ \E m \in modelRuns :
                        /\ m.id = response.model_run_id
                        /\ m.confidence = ExpectedConfidence)
    /\ [][(/\ request.op = "estimate_elasticity"
           /\ step' = "failed"
           /\ response'.error # "Terminated") =>
             /\ step = "query"
             /\ LET valid == {f \in WindowFacts : f.units_sold > 0 /\ f.price > 0}
                IN  \/ Cardinality(WindowFacts) < 10
                    \/ Cardinality(valid) < 5
                    \/ \A f, g \in valid : f.price = g.price]_vars

\* both checks are low and the elasticity is 0: the call has returned 'low_r2'
C25_Witness ==
    /\ request.op = "estimate_elasticity"
    /\ step = "returned"
    /\ response.confidence = "low_r2"
    /\ PriceCvBelow(WindowFacts, request.min_price_variance)
    /\ locals.r2 < request.min_r2_threshold
    /\ locals.elasticity >= 0
    /\ \E m \in modelRuns : m.confidence = "low_r2"

\* the objective value of grid point i of the curve given to
\* optimize_price_objective
ObjectiveAt(i) ==
    IF request.objective = "revenue"
    THEN Times(locals.prices[i], locals.quantities[i])
    ELSE Times(Minus(locals.prices[i], Rat(locals.unit_cost.v, 1)),
               locals.quantities[i])

(* C26: The price optimize_price_objective returns is a grid point, the      *)
(* quantity it returns is that point's, the point's objective value (p x D   *)
(* for 'revenue', (p - unit_cost) x D for 'profit') is >= that of every grid *)
(* point, every grid point of the same objective value has a price at least  *)
(* as high, and when the point is an endpoint no interior point has a        *)
(* strictly larger objective value.                                          *)
C26_GridArgmax ==
    step = "optimized" =>
        \E i \in DOMAIN locals.prices :
            /\ locals.optimal.optimal_price = locals.prices[i]
            /\ locals.optimal.optimal_quantity = locals.quantities[i]
            /\ \A j \in DOMAIN locals.prices :
                  /\ ~Less(ObjectiveAt(i), ObjectiveAt(j))
                  /\ ~Less(ObjectiveAt(j), ObjectiveAt(i)) =>
                        ~Less(locals.prices[j], locals.prices[i])
            /\ i \in {1, NumPoints} =>
                  \A j \in 2..(NumPoints - 1) :
                      ~Less(ObjectiveAt(i), ObjectiveAt(j))

\* the second grid point and the last have the largest revenue: the second is
\* returned
C26_Witness ==
    /\ step = "optimized"
    /\ request.objective = "revenue"
    /\ locals.optimal.optimal_price = locals.prices[2]
    /\ ~Less(ObjectiveAt(NumPoints), ObjectiveAt(2))
    /\ Less(ObjectiveAt(1), ObjectiveAt(2))

\* two fractions of the same value
Same(a, b) == a.num * b.den = b.num * a.den

\* the expected_profit of a recommendation: 0 for 'revenue'; for 'profit'
\* (suggested_price - unit_cost) x expected_units with the unit cost (in
\* halves) of a cost row of the latest date, or 0 without a cost row
ProfitAsClaimed(rec) ==
    LET rows == {c \in costs : c.product_id = request.product_id}
        latest == {c \in rows : \A x \in rows : x.date <= c.date}
        unit_costs == IF rows = {} THEN {0} ELSE {2 * c.unit_cost : c \in latest}
    IN  /\ request.objective = "revenue" => rec.expected_profit = Rat(0, 1)
        /\ request.objective = "profit" =>
              \E c \in unit_costs :
                  Same(rec.expected_profit,
                       Times(Minus(rec.suggested_price, Rat(c, 1)),
                             rec.expected_units))
        /\ (request.objective = "profit" /\ rows = {}) =>
              Same(rec.expected_profit, rec.expected_revenue)

(* C27: Every recommendation recommend_prices adds, commits or returns has   *)
(* an expected_profit: 0 for objective 'revenue', and for 'profit'           *)
(* (suggested_price - unit_cost) x expected_units with the unit cost of the  *)
(* most recent cost row of the product, or 0 when it has none, in which case *)
(* expected_profit = expected_revenue; the call never fails for a missing    *)
(* unit cost.                                                                *)
C27_ExpectedProfit ==
    request.op = "recommend_prices" =>
        /\ \A r \in session.rows \cup priceRecommendations :
              r.objective = request.objective /\ ProfitAsClaimed(r)
        /\ \A i \in DOMAIN response.recommendations :
              ProfitAsClaimed(response.recommendations[i])
        /\ response.error # "unit_cost required for profit optimization"

\* a 'profit' call has returned: the unit cost is the latest row's, not the
\* older row's, and the profit is below the revenue
C27_Witness ==
    /\ request.op = "recommend_prices"
    /\ request.objective = "profit"
    /\ step = "returned"
    /\ Cardinality({c.date : c \in costs}) = 2
    /\ priceRecommendations # {}
    /\ \A r \in priceRecommendations :
          /\ Less(r.expected_profit, r.expected_revenue)
          /\ Less(Rat(0, 1), r.expected_profit)

\* the dates of the product's facts that have 28 earlier facts: the rows that
\* keep a 28-row lag
LaggedDates ==
    {f.date : f \in {g \in FactsOfProduct :
                        Cardinality({x \in FactsOfProduct : x.date < g.date}) >= 28}}

\* the last n of a set of dates
LastDates(dates, n) == {d \in dates : Cardinality({e \in dates : e > d}) < n}

(* C28: Once run_forecast has accepted a history, its test set is the last   *)
(* test_days feature rows by date (all of them when there are fewer) and its *)
(* training set is every feature row before them; and the call is accepted   *)
(* only when at least min_data_days rows keep a 28-row lag.                  *)
C28_TrainTestSplit ==
    (request.op = "run_forecast"
       /\ step \in {"add_model_run", "add_rows", "returned"}) =>
        /\ locals.test = LastDates(LaggedDates, request.test_days)
        /\ locals.train = LaggedDates \ locals.test
        /\ Cardinality(LaggedDates) >= request.min_data_days

C30_BackgroundTaskRunsEtl ==
    /\ (response.status = "ETL started in background")
           ~> (\E w \in Workers : pc[w] # "idle")
    /\ \A i \in 1..PendingAtStart :
           (/\ response.status = "ETL started in background"
            /\ i \in DOMAIN rawSales
            /\ rawSales[i].status = "pending")
              ~> (i \in DOMAIN rawSales /\ rawSales[i].status \in Terminal)

====
